---- MODULE Spec2Model ----
(***************************************************************************)
(* The betting value analysis functions of the baseball betting simulator  *)
(* frontend: the odds conversions and the Kelly stake of utils/oddsUtils,  *)
(* the edge scorer of services/oddsService and its second copy in          *)
(* services/simulationService.                                             *)
(*                                                                         *)
(* The functions are JavaScript functions over Numbers, so every operator  *)
(* below computes on IEEE-754 binary64 values with round-to-nearest, ties  *)
(* to even, as the JavaScript engine does.  A finite nonzero double is     *)
(* (-1)^s * m * 2^e with a 53-bit significand m, kept as a little-endian   *)
(* sequence of 15-bit limbs because TLC evaluates on 32-bit integers.      *)
(***************************************************************************)
EXTENDS Integers, Sequences, FiniteSets, TLC

VARIABLES fn, args, ret,   \* the last call of a function: its name, arguments, outcome
          earlier,         \* a call made before it, kept to compare a later one with
          mockGames,       \* gameService.js: mockGames and mockGameDetails
          queryCache,      \* the data of the queries of the react-query client
          pending,         \* the queries and mutations that have not settled
          requests         \* the requests sent to the API

vars == <<fn, args, ret, earlier, mockGames, queryCache, pending, requests>>

\* what the calls of the functions by themselves leave alone
session == <<earlier, mockGames, queryCache, pending, requests>>

-----------------------------------------------------------------------------
(* Natural numbers of arbitrary size: little-endian limbs, no leading zero *)
(* limb, <<>> is 0.                                                        *)

LimbBits == 15

RECURSIVE Pow2(_)
Pow2(n) == IF n = 0 THEN 1 ELSE 2 * Pow2(n - 1)

BASE == Pow2(LimbBits)

RECURSIVE BNorm(_)
BNorm(a) == IF Len(a) = 0 THEN a
            ELSE IF a[Len(a)] = 0 THEN BNorm(SubSeq(a, 1, Len(a) - 1)) ELSE a

RECURSIVE BFromInt(_)
BFromInt(n) == IF n = 0 THEN <<>> ELSE <<n % BASE>> \o BFromInt(n \div BASE)

Limb(a, i) == IF i <= Len(a) THEN a[i] ELSE 0

RECURSIVE BCmpFrom(_, _, _)
BCmpFrom(a, b, i) == IF i = 0 THEN 0
                     ELSE IF a[i] > b[i] THEN 1
                     ELSE IF a[i] < b[i] THEN -1
                     ELSE BCmpFrom(a, b, i - 1)

BCmp(a, b) == IF Len(a) > Len(b) THEN 1
              ELSE IF Len(a) < Len(b) THEN -1
              ELSE BCmpFrom(a, b, Len(a))

RECURSIVE BAddC(_, _, _, _)
BAddC(a, b, i, c) ==
    IF i > Len(a) /\ i > Len(b) THEN (IF c = 0 THEN <<>> ELSE <<c>>)
    ELSE LET s == Limb(a, i) + Limb(b, i) + c
         IN  <<s % BASE>> \o BAddC(a, b, i + 1, s \div BASE)

BAdd(a, b) == BAddC(a, b, 1, 0)

RECURSIVE BSubC(_, _, _, _)
BSubC(a, b, i, c) ==
    IF i > Len(a) THEN <<>>
    ELSE LET s == a[i] - Limb(b, i) - c
         IN  IF s < 0 THEN <<s + BASE>> \o BSubC(a, b, i + 1, 1)
                      ELSE <<s>> \o BSubC(a, b, i + 1, 0)

\* a - b for a >= b
BSub(a, b) == BNorm(BSubC(a, b, 1, 0))

RECURSIVE BMulSmallC(_, _, _, _)
BMulSmallC(a, d, i, c) ==
    IF i > Len(a) THEN (IF c = 0 THEN <<>> ELSE <<c>>)
    ELSE LET s == a[i] * d + c
         IN  <<s % BASE>> \o BMulSmallC(a, d, i + 1, s \div BASE)

\* a * d for one limb d
BMulSmall(a, d) == IF d = 0 THEN <<>> ELSE BMulSmallC(a, d, 1, 0)

RECURSIVE BMulFrom(_, _, _)
BMulFrom(a, b, i) ==
    IF i > Len(a) THEN <<>>
    ELSE BAdd(BMulSmall(b, a[i]), BNorm(<<0>> \o BMulFrom(a, b, i + 1)))

BMul(a, b) == BNorm(BMulFrom(a, b, 1))

RECURSIVE BDivSmallFrom(_, _, _, _)
BDivSmallFrom(a, d, i, r) ==
    IF i = 0 THEN <<>>
    ELSE LET cur == r * BASE + a[i]
         IN  BDivSmallFrom(a, d, i - 1, cur % d) \o <<cur \div d>>

\* floor(a / d) for one limb d
BDivSmall(a, d) == BNorm(BDivSmallFrom(a, d, Len(a), 0))

Zeros(n) == [i \in 1..n |-> 0]

\* a * 2^n
BShl(a, n) == IF Len(a) = 0 THEN a
              ELSE Zeros(n \div LimbBits) \o BMulSmall(a, Pow2(n % LimbBits))

\* floor(a / 2^n)
BShr(a, n) == IF n \div LimbBits >= Len(a) THEN <<>>
              ELSE BDivSmall(SubSeq(a, (n \div LimbBits) + 1, Len(a)), Pow2(n % LimbBits))

\* one of the low n bits of a is set
BLowNonzero(a, n) ==
    \/ \E i \in 1..(n \div LimbBits) : Limb(a, i) # 0
    \/ Limb(a, (n \div LimbBits) + 1) % Pow2(n % LimbBits) # 0

\* bit n of a (bit 0 is the lowest)
BBit(a, n) == (Limb(a, (n \div LimbBits) + 1) \div Pow2(n % LimbBits)) % 2

RECURSIVE IntBitLen(_)
IntBitLen(n) == IF n = 0 THEN 0 ELSE 1 + IntBitLen(n \div 2)

BBitLen(a) == IF Len(a) = 0 THEN 0 ELSE (Len(a) - 1) * LimbBits + IntBitLen(a[Len(a)])

BToInt(a) == Limb(a, 1) + Limb(a, 2) * BASE

RECURSIVE BFix(_, _, _)
\* the largest q' <= q with q' * d <= r
BFix(r, d, q) == IF BCmp(BMulSmall(d, q), r) > 0 THEN BFix(r, d, q - 1) ELSE q

\* floor(r / d) for r < d * BASE, estimated from the leading limb's worth of
\* bits of d, which are the bits from bit sh on
DivEstimate(r, d, sh) ==
    BFix(r, d, IF (BToInt(BShr(r, sh)) + 1) \div BToInt(BShr(d, sh)) >= BASE
               THEN BASE - 1
               ELSE (BToInt(BShr(r, sh)) + 1) \div BToInt(BShr(d, sh)))

DivDigit(r, d) == DivEstimate(r, d, BBitLen(d) - LimbBits)

RECURSIVE BDivDigits(_, _, _, _)
\* one step of the long division with the next digit dig of r / d
DivStep(r, d, q, n, dig) ==
    BDivDigits(BSub(r, BMulSmall(d, dig)), d, BNorm(<<dig>> \o q), n - 1)

\* the next digit of the long division, of r shifted by one limb
DivShifted(r, d, q, n) == DivStep(r, d, q, n, DivDigit(r, d))

\* long division: n more base-BASE digits of r / d after the digits q; <<quotient, remainder>>
BDivDigits(r, d, q, n) ==
    IF n = 0 THEN <<q, r>>
    ELSE IF Len(r) = 0 THEN <<BNorm(Zeros(n) \o q), r>>
    ELSE DivShifted(<<0>> \o r, d, q, n)

-----------------------------------------------------------------------------
(* JavaScript Numbers: NaN, the infinities, the signed zeros and the       *)
(* finite doubles.  The operands of this module stay far from the          *)
(* subnormal and overflow ranges, so the exponent is not clamped.          *)

MantBits == 53

NaN == [k |-> "nan"]
Inf(s) == [k |-> "inf", s |-> s]
Zero(s) == [k |-> "zero", s |-> s]
Fin(s, m, e) == [k |-> "fin", s |-> s, m |-> m, e |-> e]

\* a significand of MantBits + 1 bits after the increment loses its lowest bit, a zero
Carry(s, q, e) == IF BBitLen(q) > MantBits THEN Fin(s, BShr(q, 1), e + 1)
                  ELSE Fin(s, q, e)

\* round to nearest, ties to even: m loses its low sh bits; the result goes up when
\* the highest lost bit is set and a lower one, the sticky part or the kept lowest is
RoundShift(s, m, e, sticky, sh) ==
    Carry(s,
          IF BBit(m, sh - 1) = 1
             /\ (sticky \/ BLowNonzero(m, sh - 1) \/ BBit(m, sh) = 1)
          THEN BAdd(BShr(m, sh), <<1>>)
          ELSE BShr(m, sh),
          e + sh)

RoundTo(s, m, e, sticky, len) ==
    IF len = 0 THEN Zero(s)
    ELSE IF len <= MantBits THEN Fin(s, BShl(m, MantBits - len), e - (MantBits - len))
    ELSE RoundShift(s, m, e, sticky, len - MantBits)

\* The double nearest to (-1)^s * (m + f) * 2^e, where 0 <= f < 1 and sticky <=> f > 0
\* (a sticky m has more than MantBits + 1 bits, so f never decides a tie alone)
Round(s, m, e, sticky) == RoundTo(s, m, e, sticky, BBitLen(m))

\* The Number of an integer literal
FromInt(n) == IF n = 0 THEN Zero(0)
              ELSE Round(IF n < 0 THEN 1 ELSE 0, BFromInt(IF n < 0 THEN -n ELSE n), 0, FALSE)

FNeg(x) == IF x.k = "nan" THEN x ELSE [x EXCEPT !.s = 1 - x.s]

FAbs(x) == IF x.k = "nan" THEN x ELSE [x EXCEPT !.s = 0]

\* the magnitudes of two finite nonzero doubles compared
MagCmp(x, y) == IF x.e > y.e THEN 1 ELSE IF x.e < y.e THEN -1 ELSE BCmp(x.m, y.m)

\* the sum of (-1)^sx * mx * 2^e and (-1)^sy * my * 2^e, c being mx against my
AddOrdered(sx, mx, sy, my, e, c) ==
    IF sx # sy /\ c = 0 THEN Zero(0)
    ELSE Round(IF sx = sy \/ c > 0 THEN sx ELSE sy,
               IF sx = sy THEN BAdd(mx, my)
               ELSE IF c > 0 THEN BSub(mx, my) ELSE BSub(my, mx),
               e, FALSE)

AddAligned(sx, mx, sy, my, e) == AddOrdered(sx, mx, sy, my, e, BCmp(mx, my))

\* the significands are aligned to the smaller exponent and added exactly
FAddFin(x, y) ==
    AddAligned(x.s, BShl(x.m, IF x.e < y.e THEN 0 ELSE x.e - y.e),
               y.s, BShl(y.m, IF x.e < y.e THEN y.e - x.e ELSE 0),
               IF x.e < y.e THEN x.e ELSE y.e)

\* x + y
FAdd(x, y) ==
    IF x.k = "nan" \/ y.k = "nan" THEN NaN
    ELSE IF x.k = "inf" THEN (IF y.k = "inf" /\ y.s # x.s THEN NaN ELSE x)
    ELSE IF y.k = "inf" THEN y
    ELSE IF x.k = "zero"
         THEN (IF y.k = "zero" THEN Zero(IF x.s = 1 /\ y.s = 1 THEN 1 ELSE 0) ELSE y)
    ELSE IF y.k = "zero" THEN x
    ELSE FAddFin(x, y)

\* x - y
FSub(x, y) == FAdd(x, FNeg(y))

\* x * y
FMul(x, y) ==
    IF x.k = "nan" \/ y.k = "nan" THEN NaN
    ELSE LET s == (x.s + y.s) % 2
         IN  IF x.k = "inf" \/ y.k = "inf"
             THEN (IF x.k = "zero" \/ y.k = "zero" THEN NaN ELSE Inf(s))
             ELSE IF x.k = "zero" \/ y.k = "zero" THEN Zero(s)
             ELSE Round(s, BMul(x.m, y.m), x.e + y.e, FALSE)

DivDigitsN == 4

\* the quotient and remainder <<q, r>> of the significands rounded
DivRound(s, qr, e) == Round(s, qr[1], e, Len(qr[2]) # 0)

\* the quotient of two finite nonzero doubles: its leading digit is 1 or 0, as
\* ge, x.m >= y.m, says, and DivDigitsN more digits follow
DivFin(x, y, s, ge) ==
    DivRound(s,
             BDivDigits(IF ge THEN BSub(x.m, y.m) ELSE x.m, y.m,
                        IF ge THEN <<1>> ELSE <<>>, DivDigitsN),
             x.e - y.e - DivDigitsN * LimbBits)

\* x / y
FDiv(x, y) ==
    IF x.k = "nan" \/ y.k = "nan" THEN NaN
    ELSE IF x.k = "inf" THEN (IF y.k = "inf" THEN NaN ELSE Inf((x.s + y.s) % 2))
    ELSE IF y.k = "inf" THEN Zero((x.s + y.s) % 2)
    ELSE IF y.k = "zero" THEN (IF x.k = "zero" THEN NaN ELSE Inf((x.s + y.s) % 2))
    ELSE IF x.k = "zero" THEN Zero((x.s + y.s) % 2)
    ELSE DivFin(x, y, (x.s + y.s) % 2, BCmp(x.m, y.m) >= 0)

\* the sign of a Number that is not NaN: -1, 0, 1
FSign(x) == IF x.k = "zero" THEN 0 ELSE IF x.s = 1 THEN -1 ELSE 1

\* x against y: -1, 0, 1, and 2 when one of them is NaN
FCmp(x, y) ==
    IF x.k = "nan" \/ y.k = "nan" THEN 2
    ELSE IF FSign(x) # FSign(y) THEN (IF FSign(x) > FSign(y) THEN 1 ELSE -1)
    ELSE IF FSign(x) = 0 THEN 0
    ELSE FSign(x) * (IF x.k = "inf" /\ y.k = "inf" THEN 0
                     ELSE IF x.k = "inf" THEN 1
                     ELSE IF y.k = "inf" THEN -1
                     ELSE MagCmp(x, y))

FGt(x, y) == FCmp(x, y) = 1

FLt(x, y) == FCmp(x, y) = -1

FLe(x, y) == FCmp(x, y) \in {-1, 0}

N0 == Zero(0)

N1 == FromInt(1)

N100 == FromInt(100)

\* The Numbers of the decimal literals n/100: the double nearest to the literal's value
Hundredths(n) == FDiv(FromInt(n), N100)

-----------------------------------------------------------------------------
(* JavaScript values that reach the functions as odds or probabilities:    *)
(* Numbers, undefined (a missing property), null, and strings that are no  *)
(* numerals.                                                               *)

Undefined == [k |-> "undefined"]

Null == [k |-> "null"]

Str(v) == [k |-> "string", v |-> v]

\* ToNumber; the strings of this model are not numerals and convert to NaN
ToNumber(v) == IF v.k = "undefined" THEN NaN
               ELSE IF v.k = "null" THEN N0
               ELSE IF v.k = "string" THEN NaN
               ELSE v

\* x > y, x < y, x <= y
JsGt(x, y) == FGt(ToNumber(x), ToNumber(y))

JsLt(x, y) == FLt(ToNumber(x), ToNumber(y))

JsLe(x, y) == FLe(ToNumber(x), ToNumber(y))

\* x + y on values none of which is a string: a string operand only reaches
\* "odds + 100" after "odds > 0", which no string of this model satisfies
JsAdd(x, y) == FAdd(ToNumber(x), ToNumber(y))

JsSub(x, y) == FSub(ToNumber(x), ToNumber(y))

JsMul(x, y) == FMul(ToNumber(x), ToNumber(y))

JsDiv(x, y) == FDiv(ToNumber(x), ToNumber(y))

\* -x
JsNeg(x) == FNeg(ToNumber(x))

MathAbs(x) == FAbs(ToNumber(x))

\* the larger of two Numbers that compare as c
FMaxOf(a, b, c) ==
    IF c = 2 THEN NaN
    ELSE IF c = 1 THEN a
    ELSE IF c = -1 THEN b
    ELSE IF a.k = "zero" /\ a.s = 0 THEN a ELSE b

\* Math.max of two Numbers: NaN when either is NaN, and +0 is larger than -0
MathMax(x, y) == FMaxOf(ToNumber(x), ToNumber(y), FCmp(ToNumber(x), ToNumber(y)))

FGe(x, y) == FCmp(x, y) \in {0, 1}

\* x >= y
JsGe(x, y) == FGe(ToNumber(x), ToNumber(y))

\* a faulty variant of the magnitude Math.round leaves: the fraction is dropped
RoundedMagnitudeTruncated(s, m, sh) == BShr(m, sh)

\* the integer magnitude Math.round leaves of m * 2^-sh with sign s, sh > 0: the
\* nearest integer, and of the two nearest the one towards +Infinity
RoundedMagnitude(s, m, sh) ==
    IF BBit(m, sh - 1) = 1 /\ (s = 0 \/ BLowNonzero(m, sh - 1))
    THEN BAdd(BShr(m, sh), <<1>>)
    ELSE BShr(m, sh)

FRound(x) == IF x.k # "fin" \/ x.e >= 0 THEN x
             ELSE Round(x.s, RoundedMagnitude(x.s, x.m, -x.e), 0, FALSE)

\* Math.round: NaN, the infinities, the zeros and the integers are returned as
\* they are, and a value of [-0.5, 0) rounds to -0
MathRound(x) == FRound(ToNumber(x))

\* the integer magnitude Math.floor leaves of m * 2^-sh with sign s, sh > 0
FlooredMagnitude(s, m, sh) ==
    IF s = 1 /\ BLowNonzero(m, sh) THEN BAdd(BShr(m, sh), <<1>>) ELSE BShr(m, sh)

FFloor(x) == IF x.k # "fin" \/ x.e >= 0 THEN x
             ELSE Round(x.s, FlooredMagnitude(x.s, x.m, -x.e), 0, FALSE)

\* Math.floor
MathFloor(x) == FFloor(ToNumber(x))

\* the index an integral Number of fewer than 2 * LimbBits bits, not negative,
\* is as a property key of an array
ArrayIndex(x) == IF x.k = "zero" THEN 0 ELSE BToInt(BShr(x.m, -x.e))

\* !x for the values above and objects (records without a k field are objects)
Falsy(x) == x = Undefined \/ x = Null

(* The argument expressions of a call: an integer literal, a decimal       *)
(* literal in hundredths, undefined, null, the string 'abc', NaN.          *)

IntLit(n) == [lit |-> "int", n |-> n]

DecLit(n) == [lit |-> "dec", n |-> n]

\* a decimal literal n e-17, such as 3e-17
TinyLit(n) == [lit |-> "tiny", n |-> n]

UndefLit == [lit |-> "undefined"]

NullLit == [lit |-> "null"]

StrLit == [lit |-> "string"]

NaNLit == [lit |-> "NaN"]

\* the probability a caller takes from americanToImpliedProbability(n) is defined
\* with that function below
ImpliedLit(n) == [lit |-> "implied", n |-> n]

\* an object literal is a record of argument expressions
IsObject(l) == "lit" \notin DOMAIN l

\* the Number 1e17, which is 10^8 * 10^9 without rounding
N1e17 == FMul(FromInt(100000000), FromInt(1000000000))

LitValue(l) == IF l.lit = "int" THEN FromInt(l.n)
               ELSE IF l.lit = "dec" THEN Hundredths(l.n)
               ELSE IF l.lit = "tiny" THEN FDiv(FromInt(l.n), N1e17)
               ELSE IF l.lit = "undefined" THEN Undefined
               ELSE IF l.lit = "null" THEN Null
               ELSE IF l.lit = "string" THEN Str("abc")
               ELSE NaN

-----------------------------------------------------------------------------
(* utils/oddsUtils.js                                                      *)

\* a faulty variant: the magnitude of a negative price is not taken
americanToImpliedProbabilitySigned(americanOdds) ==
    IF JsGt(americanOdds, N0)
    THEN JsDiv(N100, JsAdd(americanOdds, N100))
    ELSE JsDiv(americanOdds, JsAdd(americanOdds, N100))

americanToImpliedProbability(americanOdds) ==
    IF JsGt(americanOdds, N0)
    THEN JsDiv(N100, JsAdd(americanOdds, N100))
    ELSE JsDiv(MathAbs(americanOdds), JsAdd(MathAbs(americanOdds), N100))

N5 == FromInt(5)

NHalf == Hundredths(50)

\* a faulty variant: rounded to the nearest integer
roundToInteger(odds) == MathRound(odds)

\* Math.round(odds / 5) * 5
roundToFive(odds) == JsMul(MathRound(JsDiv(odds, N5)), N5)

\* a faulty variant: the test is  probability < 0 || probability > 1
impliedProbabilityToAmericanInclusive(probability) ==
    IF JsLt(probability, N0) \/ JsGt(probability, N1)
    THEN [k |-> "throw", e |-> "Error"]
    ELSE [k |-> "return",
          v |-> roundToFive(IF JsGt(probability, NHalf)
                            THEN JsDiv(JsMul(FromInt(-100), probability),
                                       JsSub(N1, probability))
                            ELSE JsDiv(JsMul(N100, JsSub(N1, probability)),
                                       probability))]

\* a faulty variant: the odds of a favorite are not negated
impliedProbabilityToAmericanUnsigned(probability) ==
    IF JsLe(probability, N0) \/ JsGe(probability, N1)
    THEN [k |-> "throw", e |-> "Error"]
    ELSE [k |-> "return",
          v |-> roundToFive(IF JsGt(probability, NHalf)
                            THEN JsDiv(JsMul(N100, probability),
                                       JsSub(N1, probability))
                            ELSE JsDiv(JsMul(N100, JsSub(N1, probability)),
                                       probability))]

\* how the call completes: it throws  new Error('Probability must be between 0
\* and 1')  or returns the odds
impliedProbabilityToAmerican(probability) ==
    IF JsLe(probability, N0) \/ JsGe(probability, N1)
    THEN [k |-> "throw", e |-> "Error"]
    ELSE [k |-> "return",
          v |-> roundToFive(IF JsGt(probability, NHalf)
                            THEN JsDiv(JsMul(FromInt(-100), probability),
                                       JsSub(N1, probability))
                            ELSE JsDiv(JsMul(N100, JsSub(N1, probability)),
                                       probability))]

\* a faulty variant: the profit per unit staked, without the stake
americanToDecimalOddsProfit(americanOdds) ==
    IF JsGt(americanOdds, N0)
    THEN JsDiv(americanOdds, N100)
    ELSE JsDiv(N100, MathAbs(americanOdds))

\* a faulty variant: 1 + 100 / americanOdds for negative odds
americanToDecimalOddsSigned(americanOdds) ==
    IF JsGt(americanOdds, N0)
    THEN JsAdd(N1, JsDiv(americanOdds, N100))
    ELSE JsAdd(N1, JsDiv(N100, americanOdds))

americanToDecimalOdds(americanOdds) ==
    IF JsGt(americanOdds, N0)
    THEN JsAdd(N1, JsDiv(americanOdds, N100))
    ELSE JsAdd(N1, JsDiv(N100, MathAbs(americanOdds)))

\* a faulty variant: the stake is counted with the profit
calculateExpectedValueGross(americanOdds, impliedProbability) ==
    JsSub(JsMul(americanToDecimalOdds(americanOdds), impliedProbability),
          JsSub(N1, impliedProbability))

calculateExpectedValue(americanOdds, impliedProbability) ==
    LET decimalOdds == americanToDecimalOdds(americanOdds)
    IN  JsSub(JsMul(JsSub(decimalOdds, N1), impliedProbability),
              JsSub(N1, impliedProbability))

\* a faulty variant: the numerator of the Kelly formula, not divided by b
calculateKellyStakeUndivided(probability, americanOdds) ==
    MathMax(N0, JsSub(JsMul(JsSub(americanToDecimalOdds(americanOdds), N1), probability),
                      JsSub(N1, probability)))

\* a faulty variant: the stake is not capped at 0
calculateKellyStakeUncapped(probability, americanOdds) ==
    JsDiv(JsSub(JsMul(JsSub(americanToDecimalOdds(americanOdds), N1), probability),
                JsSub(N1, probability)),
          JsSub(americanToDecimalOdds(americanOdds), N1))

calculateKellyStake(probability, americanOdds) ==
    LET decimalOdds == americanToDecimalOdds(americanOdds)
        q           == JsSub(N1, probability)
        b           == JsSub(decimalOdds, N1)
        stake       == JsDiv(JsSub(JsMul(b, probability), q), b)
    IN  MathMax(N0, stake)

-----------------------------------------------------------------------------
(* services/oddsService.js                                                 *)

oddsToProb(americanOdds) ==
    IF JsGt(americanOdds, N0)
    THEN JsDiv(N100, JsAdd(americanOdds, N100))
    ELSE JsDiv(MathAbs(americanOdds), JsAdd(MathAbs(americanOdds), N100))

\* the Numbers of the literals 0.05 and 0.02
N005 == Hundredths(5)

N002 == Hundredths(2)

\* a faulty variant: the boundaries belong to the outer ratings
determineValueTypeInclusive(edge) ==
    IF JsLe(N005, edge) THEN "strong_value"
    ELSE IF JsLe(N002, edge) THEN "value"
    ELSE IF JsLe(edge, JsNeg(N005)) THEN "poor"
    ELSE IF JsLe(edge, JsNeg(N002)) THEN "below"
    ELSE "fair"

determineValueType(edge) ==
    IF JsGt(edge, N005) THEN "strong_value"
    ELSE IF JsGt(edge, N002) THEN "value"
    ELSE IF JsLt(edge, JsNeg(N005)) THEN "poor"
    ELSE IF JsLt(edge, JsNeg(N002)) THEN "below"
    ELSE "fair"

\* a faulty variant: the properties in reverse order
ObjectEntriesReversed(edges) ==
    << <<"under", edges.under>>, <<"over", edges.over>>,
       <<"away", edges.away>>, <<"home", edges.home>> >>

\* Object.entries of the edges object: its properties in the order they were written
ObjectEntries(edges) ==
    << <<"home", edges.home>>, <<"away", edges.away>>,
       <<"over", edges.over>>, <<"under", edges.under>> >>

\* a faulty variant: (a, b) => a[1] - b[1], which sorts in ascending order
compareEdgesAscending(a, b) == JsSub(a[2], b[2])

\* (a, b) => b[1] - a[1]; the entries are <<name, edge>>, indexed from 1 here
compareEdges(a, b) == JsSub(b[2], a[2])

\* a faulty variant: an order drawn at random, whatever the comparison function
\* returns
ArrayShuffle(values, c) ==
    LET n == Len(values)
        perms == {p \in [1..n -> 1..n] : \A i, j \in 1..n : i # j => p[i] # p[j]}
    IN  {[i \in 1..n |-> values[p[i]]] : p \in perms}

\* the arrays Array.prototype.sort may leave, where c[i, j] is what the comparison
\* function returns for values[i] and values[j]: the stable sort of values when
\* it returns no NaN, and any order of values when it returns NaN for some pair
\* (the order is then implementation-defined)
ArraySort(values, c) ==
    LET n == Len(values)
        perms == {p \in [1..n -> 1..n] : \A i, j \in 1..n : i # j => p[i] # p[j]}
        \* where values[i] goes: after the values that sort before it, and after
        \* the values before it that sort the same
        place(i) == 1 + Cardinality({j \in 1..n : FSign(c[j, i]) < 0
                                                   \/ (FSign(c[j, i]) = 0 /\ j < i)})
    IN  IF \E i, j \in 1..n : c[i, j].k = "nan"
        THEN {[i \in 1..n |-> values[p[i]]] : p \in perms}
        ELSE {[k \in 1..n |-> values[CHOOSE i \in 1..n : place(i) = k]]}

typeNames == [home |-> "Home Moneyline", away |-> "Away Moneyline",
              over |-> "Over Total", under |-> "Under Total"]

\* findBestValue after the sort has left the array values
bestOfSorted(values) ==
    LET bestType == values[1][1]
        bestEdge == values[1][2]
    IN  IF JsLe(bestEdge, N002) THEN Null
        ELSE [type |-> bestType, typeName |-> typeNames[bestType],
              edge |-> bestEdge, valueType |-> determineValueType(bestEdge)]

\* the values findBestValue may return: one for every array the sort may leave
findBestValue(edges) ==
    UNION {{bestOfSorted(sorted) :
                sorted \in ArraySort(values, [i, j \in 1..Len(values) |->
                                                compareEdges(values[i], values[j])])} :
           values \in {ObjectEntries(edges)}}

\* the values analyzeBettingValue may return; each const is evaluated once
analyzeBettingValue(marketOdds, simulatedOdds) ==
    IF Falsy(marketOdds) \/ Falsy(simulatedOdds) THEN {Null}
    ELSE UNION {UNION {
             {[homeValue  |-> determineValueType(edges.home),
               awayValue  |-> determineValueType(edges.away),
               overValue  |-> determineValueType(edges.over),
               underValue |-> determineValueType(edges.under),
               bestValue  |-> best] : best \in findBestValue(edges)} :
             edges \in {[home  |-> JsSub(simulatedProbs.home, marketProbs.home),
                         away  |-> JsSub(simulatedProbs.away, marketProbs.away),
                         over  |-> JsSub(simulatedProbs.over, marketProbs.over),
                         under |-> JsSub(simulatedProbs.under, marketProbs.under)]}} :
             marketProbs \in {[home  |-> oddsToProb(marketOdds.homeMoneyline),
                               away  |-> oddsToProb(marketOdds.awayMoneyline),
                               over  |-> oddsToProb(marketOdds.overOdds),
                               under |-> oddsToProb(marketOdds.underOdds)]},
             simulatedProbs \in {[home  |-> oddsToProb(simulatedOdds.homeMoneyline),
                                  away  |-> oddsToProb(simulatedOdds.awayMoneyline),
                                  over  |-> oddsToProb(simulatedOdds.overOdds),
                                  under |-> oddsToProb(simulatedOdds.underOdds)]}}

-----------------------------------------------------------------------------
(* services/simulationService.js                                           *)

_oddsToProb(americanOdds) ==
    IF JsGt(americanOdds, N0)
    THEN JsDiv(N100, JsAdd(americanOdds, N100))
    ELSE JsDiv(MathAbs(americanOdds), JsAdd(MathAbs(americanOdds), N100))

\* a faulty variant: the market probability minus the simulated one
_calculateEdgeSwapped(marketOdds, simulatedOdds) ==
    JsSub(_oddsToProb(marketOdds), _oddsToProb(simulatedOdds))

_calculateEdge(marketOdds, simulatedOdds) ==
    LET marketProb    == _oddsToProb(marketOdds)
        simulatedProb == _oddsToProb(simulatedOdds)
    IN  JsSub(simulatedProb, marketProb)

\* a faulty variant: the threshold of value and negative is 0.05 as well
_getValueRatingCoarse(edge) ==
    IF JsGt(edge, N005) THEN "strong"
    ELSE IF JsLt(edge, JsNeg(N005)) THEN "poor"
    ELSE "neutral"

_getValueRating(edge) ==
    IF JsGt(edge, N005) THEN "strong"
    ELSE IF JsGt(edge, N002) THEN "value"
    ELSE IF JsLt(edge, JsNeg(N005)) THEN "poor"
    ELSE IF JsLt(edge, JsNeg(N002)) THEN "negative"
    ELSE "neutral"

\* the completion of analyzeValue: reading a property of an undefined
\* bettingInsights throws a TypeError
analyzeValue(simulation, marketOdds) ==
    IF Falsy(simulation) \/ Falsy(marketOdds) THEN [k |-> "return", v |-> Null]
    ELSE LET simulatedOdds == simulation.bettingInsights
         IN  IF Falsy(simulatedOdds) THEN [k |-> "throw", e |-> "TypeError"]
             ELSE CHOOSE r \in
                 {[k |-> "return",
                   v |-> [home  |-> [edge |-> homeEdge,
                                     rating |-> _getValueRating(homeEdge)],
                          away  |-> [edge |-> awayEdge,
                                     rating |-> _getValueRating(awayEdge)],
                          over  |-> [edge |-> overEdge,
                                     rating |-> _getValueRating(overEdge)],
                          under |-> [edge |-> underEdge,
                                     rating |-> _getValueRating(underEdge)]]] :
                  homeEdge  \in {_calculateEdge(marketOdds.homeMoneyline,
                                                simulatedOdds.homeMoneyline)},
                  awayEdge  \in {_calculateEdge(marketOdds.awayMoneyline,
                                                simulatedOdds.awayMoneyline)},
                  overEdge  \in {_calculateEdge(marketOdds.overOdds,
                                                simulatedOdds.overOdds)},
                  underEdge \in {_calculateEdge(marketOdds.underOdds,
                                                simulatedOdds.underOdds)}} : TRUE

-----------------------------------------------------------------------------
(* services/gameService.js: the prop bets.  Of a prop bet the model has    *)
(* the properties playerName, betType, recommendation and confidence; line *)
(* and reasoning, which nothing downstream of the generator computes with, *)
(* are left out, but the number line takes from Math.random is counted.    *)

propTypes == <<"strikeouts", "home_run", "hits", "runs_batted_in", "total_bases">>

players(homeTeam, awayTeam) ==
    << [name |-> "Player 1", team |-> homeTeam], [name |-> "Player 2", team |-> homeTeam],
       [name |-> "Player 3", team |-> awayTeam], [name |-> "Player 4", team |-> awayTeam] >>

\* the k-th Number Math.random returns during a call, of the hundredths draws
\* it returns in turn, over and over
MathRandom(draws, k) == Hundredths(draws[((k - 1) % Len(draws)) + 1])

\* Math.floor(Math.random() * 2) + 1
propsToAddAt(draws, k) ==
    ArrayIndex(JsAdd(MathFloor(JsMul(MathRandom(draws, k), FromInt(2))), N1))

\* propTypes[Math.floor(Math.random() * propTypes.length)]
propTypeAt(draws, k) ==
    propTypes[ArrayIndex(MathFloor(JsMul(MathRandom(draws, k), FromInt(Len(propTypes))))) + 1]

\* 0.4 + Math.random() * 0.4
overConfidenceAt(draws, k) ==
    JsAdd(Hundredths(40), JsMul(MathRandom(draws, k), Hundredths(40)))

\* rec, where k is the next number of Math.random: the recommendation, and
\* the number of Math.random after it
recommendationOf(overConfidence, draws, k) ==
    IF JsGt(overConfidence, Hundredths(60)) THEN [rec |-> "over", k |-> k]
    ELSE IF JsLt(overConfidence, Hundredths(40)) THEN [rec |-> "under", k |-> k]
    ELSE IF JsGt(MathRandom(draws, k), NHalf) THEN [rec |-> "over", k |-> k + 1]
    ELSE [rec |-> "under", k |-> k + 1]

\* one pass of the body of the for loop from the k-th number of Math.random on:
\* the object pushed and the next number of Math.random.  line takes a number
\* of Math.random unless the type is home_run.
nextProp(player, draws, k) ==
    LET propType == propTypeAt(draws, k)
        kLine == k + 1
        kConfidence == IF propType = "home_run" THEN kLine ELSE kLine + 1
        overConfidence == overConfidenceAt(draws, kConfidence)
        recommendation == recommendationOf(overConfidence, draws, kConfidence + 1)
    IN  [prop |-> [playerName |-> player.name,
                   betType |-> Str(propType),
                   recommendation |-> recommendation.rec,
                   confidence |-> IF recommendation.rec = "over" THEN overConfidence
                                  ELSE JsSub(N1, overConfidence)],
         k |-> recommendation.k]

RECURSIVE forPlayer(_, _, _, _, _, _)
\* for (let i = 0; i < propsToAdd; i++) {...} from pass i on, where k is the next
\* number of Math.random: the array props and the next number after the loop.
\* The object of a pass is evaluated once, as the one element of a set.
forPlayer(player, i, propsToAdd, draws, k, props) ==
    IF i >= propsToAdd THEN [k |-> k, props |-> props]
    ELSE CHOOSE r \in {forPlayer(player, i + 1, propsToAdd, draws, pushed.k,
                                  Append(props, pushed.prop)) :
                          pushed \in {nextProp(player, draws, k)}} : TRUE

RECURSIVE addProps(_, _, _, _, _)
\* players.forEach(...) from player p on: the array props when forEach returns
addProps(allPlayers, p, draws, k, props) ==
    IF p > Len(allPlayers) THEN props
    ELSE CHOOSE r \in {addProps(allPlayers, p + 1, draws, done.k, done.props) :
                          done \in {forPlayer(allPlayers[p], 0, propsToAddAt(draws, k),
                                              draws, k + 1, props)}} : TRUE

\* a faulty variant: (a, b) => a.confidence - b.confidence
compareConfidenceAscending(a, b) == JsSub(a.confidence, b.confidence)

\* (a, b) => b.confidence - a.confidence
compareConfidence(a, b) == JsSub(b.confidence, a.confidence)

\* props.sort((a, b) => b.confidence - a.confidence): the arrays props may be
\* after it; the sort is in place
sortProps(props) ==
    ArraySort(props, [i, j \in 1..Len(props) |-> compareConfidence(props[i], props[j])])

\* the arrays _generateMockPropBets may return when Math.random returns draws
_generateMockPropBets(homeTeam, awayTeam, draws) ==
    sortProps(addProps(players(homeTeam, awayTeam), 1, draws, 1, <<>>))

\* how fetchPlayerProps settles: mockGame is mockGameDetails[gameId] when
\* useMockData is set and the mock data are loaded, and undefined otherwise;
\* api is how api.get settles.  A rejection is rethrown as a new Error.
fetchPlayerProps(mockGame, draws, api) ==
    IF ~Falsy(mockGame)
    THEN {[k |-> "return", v |-> props] :
             props \in _generateMockPropBets(mockGame.homeTeam.name,
                                             mockGame.awayTeam.name, draws)}
    ELSE IF api.k = "return" THEN {api}
    ELSE {[k |-> "throw", e |-> "Error"]}

-----------------------------------------------------------------------------
(* components/baseball/OddsComparison.jsx                                  *)

\* the string a Number's toFixed(3) returns: a sign and a count of thousandths,
\* or "NaN"
Numeral(s, n) == [k |-> "numeral", s |-> s, n |-> n]

\* Number.prototype.toFixed(3) of a Number below 2^21 in magnitude: the integer
\* n with n / 1000 nearest to the exact magnitude, the larger one of two; the
\* sign is written when the Number is below zero
toFixed3(x) ==
    IF x.k = "nan" THEN Str("NaN")
    ELSE IF x.k = "zero" THEN Numeral(0, 0)
    ELSE IF x.e >= 0 THEN Numeral(x.s, 1000 * BToInt(BShl(x.m, x.e)))
    ELSE Numeral(x.s, BToInt(BShr(BMulSmall(x.m, 1000), -x.e))
                      + BBit(BMulSmall(x.m, 1000), -x.e - 1))

\* ToNumber of a string toFixed(3) returned: the double nearest to the numeral
NumeralToNumber(t) ==
    IF t.k # "numeral" THEN NaN
    ELSE IF t.n = 0 THEN Zero(t.s)
    ELSE FDiv(FromInt(IF t.s = 1 THEN -t.n ELSE t.n), FromInt(1000))

\* the helper oddsToProb of the component, which returns a string
OddsComparison_oddsToProb(americanOdds) ==
    IF JsGt(americanOdds, N0)
    THEN toFixed3(JsDiv(N100, JsAdd(americanOdds, N100)))
    ELSE toFixed3(JsDiv(MathAbs(americanOdds), JsAdd(MathAbs(americanOdds), N100)))

\* the text of the indicator for the string difference
indicatorText(difference) ==
    IF FGt(NumeralToNumber(difference), N005) THEN "Strong Value"
    ELSE IF FGt(NumeralToNumber(difference), N002) THEN "Value"
    ELSE IF FLt(NumeralToNumber(difference), FNeg(N005)) THEN "Poor Value"
    ELSE IF FLt(NumeralToNumber(difference), FNeg(N002)) THEN "Below Value"
    ELSE "Fair Value"

\* getValueIndicator: the difference of the two strings is a difference of
\* Numbers, written with 3 decimals again and compared as a Number
getValueIndicator(marketOdds, simulatedOdds) ==
    LET marketProb    == OddsComparison_oddsToProb(marketOdds)
        simulatedProb == OddsComparison_oddsToProb(simulatedOdds)
        difference    == toFixed3(FSub(NumeralToNumber(simulatedProb),
                                       NumeralToNumber(marketProb)))
    IN  [text |-> indicatorText(difference)]

-----------------------------------------------------------------------------
(* components/baseball/PropBetsList.jsx                                    *)

\* typeof bet.betType === 'string' ? bet.betType : bet.betType?.name || 'unknown'
\* as the key of groups; no name of this model is the empty string
betTypeOf(bet) ==
    IF bet.betType = Undefined \/ bet.betType = Null THEN "unknown"
    ELSE IF "k" \in DOMAIN bet.betType THEN bet.betType.v
    ELSE IF "name" \in DOMAIN bet.betType /\ bet.betType.name # Undefined
    THEN bet.betType.name.v
    ELSE "unknown"

\* groups after groups[betType].push(bet), as its entries <<key, array>> in the
\* order the keys were created
pushToGroup(groups, betType, bet) ==
    IF \E g \in 1..Len(groups) : groups[g][1] = betType
    THEN [g \in 1..Len(groups) |->
             IF groups[g][1] = betType
             THEN <<betType, Append(groups[g][2], bet)>>
             ELSE groups[g]]
    ELSE Append(groups, <<betType, <<bet>> >>)

RECURSIVE reduceFrom(_, _, _)
\* propBets.reduce(...) from the element i on
reduceFrom(propBets, i, groups) ==
    IF i > Len(propBets) THEN groups
    ELSE reduceFrom(propBets, i + 1, pushToGroup(groups, betTypeOf(propBets[i]), propBets[i]))

\* Object.entries(groupedPropBets): the keys are names, which come in the order
\* they were created
groupedPropBets(propBets) == reduceFrom(propBets, 1, <<>>)

RECURSIVE displayedRows(_)
\* Object.entries(groupedPropBets).map(([betType, bets]) => ... bets.map(...)):
\* the bets of the rows from the top of the list to its bottom
displayedRows(sections) ==
    IF sections = <<>> THEN <<>>
    ELSE sections[1][2] \o displayedRows(Tail(sections))

\* The prop propBets when it is an array: a prop may be undefined or null too
ArrayProp(items) == [k |-> "array", items |-> items]

\* what PropBetsList renders: the message that there are none, or a section for
\* every entry of groupedPropBets with a row for every bet of it; and the array
\* propBets as the call leaves it
PropBetsList(propBets) ==
    IF Falsy(propBets) \/ Len(propBets.items) = 0
    THEN [empty |-> TRUE, sections |-> <<>>, propBets |-> propBets]
    ELSE [empty |-> FALSE, sections |-> groupedPropBets(propBets.items),
          propBets |-> propBets]

-----------------------------------------------------------------------------
(* The values of the argument expressions                                  *)

RECURSIVE Value(_)
Value(l) == IF IsObject(l) THEN [f \in DOMAIN l |-> Value(l[f])]
            ELSE IF l.lit = "implied" THEN americanToImpliedProbability(FromInt(l.n))
            ELSE LitValue(l)

-----------------------------------------------------------------------------
(* The calls.  The module keeps no state of its own: a state of the model  *)
(* is the last call made, its arguments and what it returned or threw.     *)

Return(v) == [k |-> "return", v |-> v]

Throw(e) == [k |-> "throw", e |-> e]

\* the keys of the queries: ['games', date], ['game', gameId], ['odds', gameId]
gamesKey == [q |-> "games"]

gameKey(gameId) == [q |-> "game", id |-> gameId]

oddsKey(gameId) == [q |-> "odds", id |-> gameId]

\* the games whose page is opened
Opened == {"nyy-bos"}

QueryKeys == {gamesKey} \cup {gameKey(g) : g \in Opened} \cup {oddsKey(g) : g \in Opened}

\* no call: what is kept of the calls made before while none is kept
NoCall == [fn |-> "none", args |-> <<>>, ret |-> Return(Undefined), since |-> 0]

Init == /\ fn = "none" /\ args = <<>> /\ ret = Return(Undefined)
        /\ earlier = NoCall
        /\ mockGames = Null
        /\ queryCache = [key \in QueryKeys |-> Undefined]
        /\ pending = {}
        /\ requests = {}

\* The largest magnitude of the odds a conversion is called with
MaxOdds == 250

ValidOdds == {o \in -MaxOdds..MaxOdds : o >= 100 \/ o <= -100}

\* Malformed odds: zero, a missing property, null, a string, NaN
MalformedOdds == {IntLit(0), UndefLit, NullLit, StrLit, NaNLit}

OddsArgs == {IntLit(o) : o \in ValidOdds} \cup MalformedOdds

\* JavaScript runs a call to completion before the next one starts: a call is
\* made when no result is pending, and the caller takes the result
Consume ==
    /\ fn # "none"
    /\ fn' = "none" /\ args' = <<>> /\ ret' = Return(Undefined)
    /\ UNCHANGED session

Call_americanToImpliedProbability ==
    /\ fn = "none"
    /\ \E o \in OddsArgs :
        /\ fn' = "americanToImpliedProbability"
        /\ args' = <<o>>
        /\ ret' = Return(americanToImpliedProbability(Value(o)))
    /\ UNCHANGED session

Call_oddsToProb ==
    /\ fn = "none"
    /\ \E o \in OddsArgs :
        /\ fn' = "oddsToProb"
        /\ args' = <<o>>
        /\ ret' = Return(oddsToProb(Value(o)))
    /\ UNCHANGED session

Call__oddsToProb ==
    /\ fn = "none"
    /\ \E o \in OddsArgs :
        /\ fn' = "_oddsToProb"
        /\ args' = <<o>>
        /\ ret' = Return(_oddsToProb(Value(o)))
    /\ UNCHANGED session

NextConvert == \/ Call_americanToImpliedProbability
               \/ Call_oddsToProb
               \/ Call__oddsToProb
               \/ Consume

SpecConvert == Init /\ [][NextConvert]_vars

\* edges in hundredths, all of the open interval (-1, 1)
EdgeArgs == {DecLit(n) : n \in -99..99}

Call_determineValueType ==
    /\ fn = "none"
    /\ \E e \in EdgeArgs :
        /\ fn' = "determineValueType"
        /\ args' = <<e>>
        /\ ret' = Return(determineValueType(Value(e)))
    /\ UNCHANGED session

Call__getValueRating ==
    /\ fn = "none"
    /\ \E e \in EdgeArgs :
        /\ fn' = "_getValueRating"
        /\ args' = <<e>>
        /\ ret' = Return(_getValueRating(Value(e)))
    /\ UNCHANGED session

NextClassify == \/ Call_determineValueType
                \/ Call__getValueRating
                \/ Consume

SpecClassify == Init /\ [][NextClassify]_vars

\* The odds of a market and a model price: 100, 110, ... with either sign
PairSteps == 20

PairOdds == {sgn * (100 + 10 * i) : sgn \in {-1, 1}, i \in 0..PairSteps}

Call__calculateEdge ==
    /\ fn = "none"
    /\ \E m, sim \in PairOdds :
        /\ fn' = "_calculateEdge"
        /\ args' = <<IntLit(m), IntLit(sim)>>
        /\ ret' = Return(_calculateEdge(Value(IntLit(m)), Value(IntLit(sim))))
    /\ UNCHANGED session

\* <<market price, model price>> of one outcome: the five ratings, and a
\* zero, a missing and a non-numeric price
OutcomePairs ==
    { <<IntLit(-150), IntLit(-210)>>, <<IntLit(120), IntLit(110)>>,
      <<IntLit(-150), IntLit(-150)>>, <<IntLit(110), IntLit(120)>>,
      <<IntLit(-210), IntLit(-150)>>, <<IntLit(0), IntLit(-110)>>,
      <<UndefLit, IntLit(100)>>, <<IntLit(-120), StrLit>> }

TotalPairs ==
    { <<IntLit(-150), IntLit(-210)>>, <<IntLit(120), IntLit(110)>>,
      <<IntLit(-150), IntLit(-150)>>, <<IntLit(-110), IntLit(0)>> }

\* the odds objects of the market and of the model for the chosen pairs
OddsObject(h, a, o, u, side) ==
    [homeMoneyline |-> h[side], awayMoneyline |-> a[side],
     overOdds |-> o[side], underOdds |-> u[side]]

Call_analyzeBettingValue ==
    /\ fn = "none"
    /\ \/ \E h, a \in OutcomePairs, o, u \in TotalPairs :
            LET marketOdds    == OddsObject(h, a, o, u, 1)
                simulatedOdds == OddsObject(h, a, o, u, 2)
            IN  /\ fn' = "analyzeBettingValue"
                /\ args' = <<marketOdds, simulatedOdds>>
                /\ \E m \in {Value(marketOdds)}, s \in {Value(simulatedOdds)} :
                     \E r \in analyzeBettingValue(m, s) : ret' = Return(r)
       \/ \E h \in OutcomePairs, missing \in {NullLit, UndefLit}, side \in {1, 2} :
            LET given == OddsObject(h, h, h, h, side)
                a     == IF side = 1 THEN <<given, missing>> ELSE <<missing, given>>
            IN  /\ fn' = "analyzeBettingValue"
                /\ args' = a
                /\ \E m \in {Value(a[1])}, s \in {Value(a[2])} :
                     \E r \in analyzeBettingValue(m, s) : ret' = Return(r)
    /\ UNCHANGED session

Call_analyzeValue ==
    /\ fn = "none"
    /\ \/ \E h, a \in OutcomePairs, o, u \in TotalPairs :
            LET marketOdds == OddsObject(h, a, o, u, 1)
                simulation == [bettingInsights |-> OddsObject(h, a, o, u, 2)]
            IN  /\ fn' = "analyzeValue"
                /\ args' = <<simulation, marketOdds>>
                /\ \E s \in {Value(simulation)}, m \in {Value(marketOdds)} :
                     ret' = analyzeValue(s, m)
       \/ \E h \in OutcomePairs :
            \E simulation \in {NullLit, UndefLit, [bettingInsights |-> UndefLit],
                               [bettingInsights |-> OddsObject(h, h, h, h, 2)]},
               marketOdds \in {NullLit, UndefLit, OddsObject(h, h, h, h, 1)} :
                /\ fn' = "analyzeValue"
                /\ args' = <<simulation, marketOdds>>
                /\ \E s \in {Value(simulation)}, m \in {Value(marketOdds)} :
                     ret' = analyzeValue(s, m)
    /\ UNCHANGED session

NextEdge == \/ Call__calculateEdge
            \/ Call_analyzeBettingValue
            \/ Call_analyzeValue
            \/ Consume

SpecEdge == Init /\ [][NextEdge]_vars

\* edges in hundredths given to findBestValue
EdgeSamples == {-3, -1, 2, 3, 5, 7}

Call_findBestValue ==
    /\ fn = "none"
    /\ \E h, a, o, u \in EdgeSamples :
        LET edges == [home |-> DecLit(h), away |-> DecLit(a),
                      over |-> DecLit(o), under |-> DecLit(u)]
        IN  /\ fn' = "findBestValue"
            /\ args' = <<edges>>
            /\ \E r \in findBestValue(Value(edges)) : ret' = Return(r)
    /\ UNCHANGED session

NextBest == \/ Call_findBestValue
            \/ Consume

SpecBest == Init /\ [][NextBest]_vars

\* probabilities in hundredths: all of (0, 1), and values outside of it
ProbArgs == {DecLit(n) : n \in 1..99} \cup {DecLit(0), DecLit(100), DecLit(-50), DecLit(150)}

KellyOdds == {IntLit(o) : o \in PairOdds} \cup {IntLit(0), UndefLit}

Call_calculateKellyStake ==
    /\ fn = "none"
    /\ \/ \E p \in ProbArgs, o \in KellyOdds :
            /\ fn' = "calculateKellyStake"
            /\ args' = <<p, o>>
            /\ ret' = Return(calculateKellyStake(Value(p), Value(o)))
       \/ \E o \in ValidOdds :
            /\ fn' = "calculateKellyStake"
            /\ args' = <<ImpliedLit(o), IntLit(o)>>
            /\ ret' = Return(calculateKellyStake(Value(ImpliedLit(o)), Value(IntLit(o))))
    /\ UNCHANGED session

NextKelly == \/ Call_calculateKellyStake
             \/ Consume

SpecKelly == Init /\ [][NextKelly]_vars

\* the value v that the call of fn with the arguments args returned, passed on
\* as an argument of the next call
ResultLit(f, a, v) == [lit |-> "result", fn |-> f, args |-> a, v |-> v]

RECURSIVE ChainLength(_)
\* the number of calls whose results led to the argument l
ChainLength(l) == IF l.lit = "result" THEN 1 + ChainLength(l.args[1]) ELSE 0

\* The longest chain of conversions of a result of a conversion
MaxChain == 3

\* probabilities given to impliedProbabilityToAmerican: the hundredths, values
\* outside of (0, 1), and values that are no numbers
ConvertedProbs == ProbArgs \cup {UndefLit, NullLit, NaNLit} \cup {TinyLit(1), TinyLit(3)}

Call_impliedProbabilityToAmerican ==
    /\ fn = "none"
    /\ \E p \in ConvertedProbs :
        /\ fn' = "impliedProbabilityToAmerican"
        /\ args' = <<p>>
        /\ ret' = impliedProbabilityToAmerican(Value(p))
    /\ UNCHANGED session

\* impliedProbabilityToAmerican(americanToImpliedProbability(...))
Chain_impliedProbabilityToAmerican ==
    /\ fn = "americanToImpliedProbability"
    /\ ret.k = "return"
    /\ ChainLength(args[1]) < MaxChain
    /\ fn' = "impliedProbabilityToAmerican"
    /\ args' = <<ResultLit(fn, args, ret.v)>>
    /\ ret' = impliedProbabilityToAmerican(ret.v)
    /\ UNCHANGED session

\* americanToImpliedProbability(impliedProbabilityToAmerican(...))
Chain_americanToImpliedProbability ==
    /\ fn = "impliedProbabilityToAmerican"
    /\ ret.k = "return"
    /\ ChainLength(args[1]) < MaxChain
    /\ fn' = "americanToImpliedProbability"
    /\ args' = <<ResultLit(fn, args, ret.v)>>
    /\ ret' = Return(americanToImpliedProbability(ret.v))
    /\ UNCHANGED session

Call_americanToDecimalOdds ==
    /\ fn = "none"
    /\ \E o \in OddsArgs :
        /\ fn' = "americanToDecimalOdds"
        /\ args' = <<o>>
        /\ ret' = Return(americanToDecimalOdds(Value(o)))
    /\ UNCHANGED session

NextAmerican == \/ Call_americanToImpliedProbability
                \/ Call_impliedProbabilityToAmerican
                \/ Chain_impliedProbabilityToAmerican
                \/ Chain_americanToImpliedProbability
                \/ Call_americanToDecimalOdds
                \/ Consume

SpecAmerican == Init /\ [][NextAmerican]_vars

\* The numbers Math.random returns, in hundredths, and how many of them there
\* are before they come again
StreamLen == 3

RandomStreams == [1..StreamLen -> {5, 30, 55, 90}]

\* The most prop bets in an array that is no result of _generateMockPropBets
MaxCandidates == 3

\* confidences of prop bets: of (0, 1), outside of it, and no number
ConfidenceSamples == {DecLit(55), DecLit(70), DecLit(82), DecLit(0), DecLit(150), NaNLit}

\* bet types of prop bets: a string, an object with a name, none
BetTypeSamples == {Str("strikeouts"), Str("hits"), [name |-> Str("hits")], Undefined}

\* an array of prop bets as it is written down: the confidences are literals
Candidates(betTypes, confidences) ==
    [i \in 1..Len(confidences) |->
        [playerName |-> <<"Player 1", "Player 2", "Player 3", "Player 4", "Player 5">>[i],
         betType |-> betTypes[i],
         recommendation |-> "over", confidence |-> confidences[i]]]

\* the arrays of prop bets of one bet type with every choice of confidences
RankedCandidates ==
    UNION {{Candidates([i \in 1..n |-> Str("hits")], c) :
                c \in [1..n -> ConfidenceSamples]} : n \in 0..MaxCandidates}

\* the arrays of prop bets with every choice of bet types, and the confidences
\* in descending order but for the last of these
DisplayedCandidates ==
    UNION {{Candidates(t, [i \in 1..n |-> c[i]]) :
                t \in [1..n -> BetTypeSamples],
                c \in { <<DecLit(82), DecLit(70), DecLit(55), DecLit(55), DecLit(0)>>,
                        <<DecLit(70), DecLit(70), DecLit(70), DecLit(55), DecLit(55)>>,
                        <<DecLit(150), DecLit(70), DecLit(0), NaNLit, DecLit(0)>>,
                        <<DecLit(55), DecLit(82), DecLit(70), DecLit(70), DecLit(82)>> }} :
           n \in 0..MaxCandidates}

\* the array of prop bets that an array written down is
PropsValue(l) == [i \in 1..Len(l) |-> [l[i] EXCEPT !.confidence = Value(@)]]

\* The arguments of _generateMockPropBets, and the numbers Math.random returns
\* during the call
Call__generateMockPropBets ==
    /\ fn = "none"
    /\ \E draws \in RandomStreams :
        /\ fn' = "_generateMockPropBets"
        /\ args' = <<"Home", "Away", [random |-> draws]>>
        /\ \E props \in _generateMockPropBets("Home", "Away", draws) :
             ret' = Return(props)
    /\ UNCHANGED session

\* The argument of fetchPlayerProps, and what the mock data, Math.random and
\* the API answer during the call; on the mock path, which hands over to
\* _generateMockPropBets, Math.random returns one number over and over
Call_fetchPlayerProps ==
    /\ fn = "none"
    /\ \/ \E draws \in {d \in RandomStreams : \A i \in 1..StreamLen : d[i] = d[1]} :
            LET mockGame == [homeTeam |-> [name |-> "Home"], awayTeam |-> [name |-> "Away"]]
            IN  /\ fn' = "fetchPlayerProps"
                /\ args' = <<"game1", [mockGame |-> "game1", random |-> draws]>>
                /\ \E r \in fetchPlayerProps(mockGame, draws, Throw("unused")) : ret' = r
       \/ \E response \in RankedCandidates :
            /\ fn' = "fetchPlayerProps"
            /\ args' = <<"game1", [response |-> response]>>
            /\ \E r \in fetchPlayerProps(Undefined, <<>>, Return(PropsValue(response))) : ret' = r
       \/ /\ fn' = "fetchPlayerProps"
          /\ args' = <<"game1", [rejected |-> "Network Error"]>>
          /\ \E r \in fetchPlayerProps(Undefined, <<>>, Throw("Network Error")) : ret' = r
    /\ UNCHANGED session

\* props.sort((a, b) => b.confidence - a.confidence) of _generateMockPropBets
\* on an array props
Call_sortProps ==
    /\ fn = "none"
    /\ \E props \in RankedCandidates :
        /\ fn' = "sortProps"
        /\ args' = <<props>>
        /\ \E sorted \in sortProps(PropsValue(props)) : ret' = Return(sorted)
    /\ UNCHANGED session

\* The prop propBets of PropBetsList
Call_PropBetsList ==
    /\ fn = "none"
    /\ \/ \E propBets \in DisplayedCandidates :
            /\ fn' = "PropBetsList"
            /\ args' = <<ArrayProp(propBets)>>
            /\ ret' = Return(PropBetsList(ArrayProp(PropsValue(propBets))))
       \/ \E propBets \in {Undefined, Null} :
            /\ fn' = "PropBetsList"
            /\ args' = <<propBets>>
            /\ ret' = Return(PropBetsList(propBets))
    /\ UNCHANGED session

NextProps == \/ Call__generateMockPropBets
             \/ Call_fetchPlayerProps
             \/ Call_sortProps
             \/ Call_PropBetsList
             \/ Consume

SpecProps == Init /\ [][NextProps]_vars

\* The most calls counted between a call and a later call of the same function
MaxBetween == 2

\* odds the functions are called with twice: a favourite, an underdog, and
\* malformed ones
RepeatedOdds == {IntLit(-150), IntLit(120), IntLit(0), NaNLit}

\* the calls of the core functions that are made again later: the conversions,
\* the rating, the stake, and the analyses with and without ties of the edges
CoreCalls ==
    {[fn |-> f, args |-> <<o>>] :
        f \in {"americanToImpliedProbability", "oddsToProb", "americanToDecimalOdds"},
        o \in RepeatedOdds}
    \cup {[fn |-> "impliedProbabilityToAmerican", args |-> <<p>>] :
            p \in {DecLit(55), DecLit(40), DecLit(0)}}
    \cup {[fn |-> "determineValueType", args |-> <<e>>] : e \in {DecLit(3), DecLit(-6)}}
    \cup {[fn |-> "calculateKellyStake", args |-> <<p, o>>] :
            p \in {DecLit(55), DecLit(40)}, o \in {IntLit(-150), IntLit(120)}}
    \cup {[fn |-> "findBestValue",
           args |-> <<[home |-> DecLit(h), away |-> DecLit(a),
                       over |-> DecLit(7), under |-> DecLit(u)]>>] :
            h, a, u \in {3, 7}}
    \cup {[fn |-> "analyzeBettingValue",
           args |-> <<OddsObject(h, a, o, o, 1), OddsObject(h, a, o, o, 2)>>] :
            h, a \in { <<IntLit(-150), IntLit(-210)>>, <<IntLit(120), IntLit(110)>> },
            o \in { <<IntLit(-150), IntLit(-210)>>, <<IntLit(-150), IntLit(-150)>> }}
    \cup {[fn |-> "analyzeValue",
           args |-> <<[bettingInsights |-> OddsObject(h, a, a, h, 2)],
                      OddsObject(h, a, a, h, 1)>>] :
            h, a \in { <<IntLit(-150), IntLit(-210)>>, <<IntLit(110), IntLit(120)>> }}

\* how the call of the core function f with the arguments a may complete
Apply(f, a) ==
    CASE f = "americanToImpliedProbability" ->
            {Return(americanToImpliedProbability(Value(a[1])))}
      [] f = "oddsToProb" -> {Return(oddsToProb(Value(a[1])))}
      [] f = "americanToDecimalOdds" -> {Return(americanToDecimalOdds(Value(a[1])))}
      [] f = "impliedProbabilityToAmerican" -> {impliedProbabilityToAmerican(Value(a[1]))}
      [] f = "determineValueType" -> {Return(determineValueType(Value(a[1])))}
      [] f = "calculateKellyStake" ->
            {Return(calculateKellyStake(Value(a[1]), Value(a[2])))}
      [] f = "findBestValue" -> {Return(r) : r \in findBestValue(Value(a[1]))}
      [] f = "analyzeBettingValue" ->
            {Return(r) : r \in analyzeBettingValue(Value(a[1]), Value(a[2]))}
      [] f = "analyzeValue" -> {analyzeValue(Value(a[1]), Value(a[2]))}

\* A call of a core function.  The first call may be kept to compare later
\* calls with; the calls after it are counted.
Call_core ==
    /\ fn = "none"
    /\ \E c \in CoreCalls : \E a \in {c.args} : \E r \in Apply(c.fn, a) :
        /\ fn' = c.fn
        /\ args' = a
        /\ ret' = r
        /\ IF earlier = NoCall
           THEN earlier' \in {NoCall, [fn |-> c.fn, args |-> a, ret |-> r, since |-> 0]}
           ELSE earlier' = [earlier EXCEPT !.since = IF @ < MaxBetween THEN @ + 1 ELSE @]
    /\ UNCHANGED <<mockGames, queryCache, pending, requests>>

NextRepeat == \/ Call_core
              \/ Consume

SpecRepeat == Init /\ [][NextRepeat]_vars

Call_getValueIndicator ==
    /\ fn = "none"
    /\ \E m, sim \in PairOdds :
        /\ fn' = "getValueIndicator"
        /\ args' = <<IntLit(m), IntLit(sim)>>
        /\ ret' = Return(getValueIndicator(Value(IntLit(m)), Value(IntLit(sim))))
    /\ UNCHANGED session

NextIndicator == \/ Call_getValueIndicator
                 \/ Call_determineValueType
                 \/ Consume

SpecIndicator == Init /\ [][NextIndicator]_vars

Call_calculateExpectedValue ==
    /\ fn = "none"
    /\ \/ \E o \in KellyOdds, p \in ProbArgs :
            /\ fn' = "calculateExpectedValue"
            /\ args' = <<o, p>>
            /\ ret' = Return(calculateExpectedValue(Value(o), Value(p)))
       \/ \E o \in ValidOdds :
            /\ fn' = "calculateExpectedValue"
            /\ args' = <<IntLit(o), ImpliedLit(o)>>
            /\ ret' = Return(calculateExpectedValue(Value(IntLit(o)), Value(ImpliedLit(o))))
    /\ UNCHANGED session

NextStake == \/ Call_calculateExpectedValue
             \/ Consume

SpecStake == Init /\ [][NextStake]_vars

-----------------------------------------------------------------------------
(* App.jsx, services/api.js, services/gameService.js, hooks/useGames.js:   *)
(* the queries and the mutations of the react-query client.  A service     *)
(* function runs up to its first await when it is called; what it awaits   *)
(* settles in a later step.                                                *)

\* const useMockData = API_CONFIG.useMockData, in a build with mock data enabled
useMockData == TRUE

\* the ids of todaysGames of mockData.js in its order ("mlb-2025-03-23-" left
\* out), which are the keys of gameDetails as well
mockIds == <<"lad-sf", "nyy-bos", "hou-tex">>

\* an array as the data of a query
ArrayData(items) == [k |-> "array", items |-> items]

\* simulation results of a game: those written in mockData.js, and those
\* runGameSimulation returns from its mock branch
Results(gameId, from) == [k |-> "results", gameId |-> gameId, from |-> from]

\* mockData.js: todaysGames; the second game has no simulation yet
todaysGames ==
    << [id |-> "lad-sf", simulationResults |-> Results("lad-sf", "mockData")],
       [id |-> "nyy-bos", simulationResults |-> Null],
       [id |-> "hou-tex", simulationResults |-> Results("hou-tex", "mockData")] >>

\* mockData.js: gameDetails, which have no simulationResults
gameDetails == [id \in {mockIds[i] : i \in DOMAIN mockIds} |-> [id |-> id]]

\* the module variable mockGameDetails is assigned together with mockGames
mockGameDetails == IF mockGames = Null THEN Null ELSE gameDetails

\* what axios.get and axios.post resolve with: the response object, not its data
AxiosResponse(url) == [k |-> "response", status |-> 200, url |-> url]

\* what axios rejects with when the server answers with a status, or does not
\* answer (status 0)
AxiosError(status) ==
    IF status = 0 THEN [request |-> TRUE]
    ELSE [request |-> TRUE, response |-> [status |-> status]]

\* formatApiError: the status of the response, 0 without a response
formatApiError(error) ==
    [status |-> IF "response" \in DOMAIN error THEN error.response.status
                ELSE IF "request" \in DOMAIN error THEN 0 ELSE 500,
     original |-> error]

\* api.get and api.post throw formatApiError(error); the service functions catch
\* it and throw new Error(`Failed to ...: ${formattedError.message}`)
ServiceError(error) == [name |-> "Error", message |-> formatApiError(error).status]

\* App.jsx: retry of the default options of the queries; error?.response?.status
\* is undefined for an error without a response
retry(failureCount, error) ==
    IF "response" \in DOMAIN error /\ error.response.status = 404 THEN FALSE
    ELSE failureCount < 2

\* fetchTodaysGames up to its first await: it returns mockGames, or sends a request
fetchTodaysGames ==
    IF useMockData /\ ~Falsy(mockGames) THEN [via |-> "mock", v |-> mockGames]
    ELSE [via |-> "api", method |-> "get", url |-> <<"/games/baseball/today">>]

fetchGameDetails(gameId) ==
    IF useMockData /\ ~Falsy(mockGameDetails) /\ gameId \in DOMAIN mockGameDetails
    THEN [via |-> "mock", v |-> mockGameDetails[gameId]]
    ELSE [via |-> "api", method |-> "get", url |-> <<"/games/baseball/", gameId>>]

getGameOdds(gameId) ==
    [via |-> "api", method |-> "get", url |-> <<"/odds/mlb/games/", gameId>>]

\* runGameSimulation: its mock branch waits a second and returns results it
\* makes up; otherwise it posts to the API
runGameSimulation(gameId) ==
    IF useMockData /\ ~Falsy(mockGameDetails) /\ gameId \in DOMAIN mockGameDetails
    THEN [via |-> "mock", v |-> Results(gameId, "simulation")]
    ELSE [via |-> "api", method |-> "post", url |-> <<"/simulations/baseball/", gameId>>]

\* the query function of a key
QueryFn(key) ==
    IF key.q = "games" THEN fetchTodaysGames
    ELSE IF key.q = "game" THEN fetchGameDetails(key.id)
    ELSE getGameOdds(key.id)

\* requests after the call of a service function
Sent(call) ==
    IF call.via = "api" THEN requests \cup {[method |-> call.method, url |-> call.url]}
    ELSE requests

\* what a call of a service function resolves with
Resolved(call) == IF call.via = "mock" THEN call.v ELSE AxiosResponse(call.url)

\* { ...obj, simulationResults }
Spread(obj, simulationResults) ==
    [f \in DOMAIN obj \cup {"simulationResults"} |->
        IF f = "simulationResults" THEN simulationResults ELSE obj[f]]

\* a faulty variant of the updater: every game gets the results
updateGamesAll(oldData, simulationResults, gameId) ==
    IF Falsy(oldData) THEN Return(oldData)
    ELSE IF oldData.k # "array" THEN Throw("TypeError")
    ELSE Return(ArrayData([i \in DOMAIN oldData.items |->
                              Spread(oldData.items[i], simulationResults)]))

\* a faulty variant of the updater: the results of the other games are dropped
updateGamesOnly(oldData, simulationResults, gameId) ==
    IF Falsy(oldData) THEN Return(oldData)
    ELSE IF oldData.k # "array" THEN Throw("TypeError")
    ELSE Return(ArrayData([i \in DOMAIN oldData.items |->
                              IF oldData.items[i].id = gameId
                              THEN Spread(oldData.items[i], simulationResults)
                              ELSE Spread(oldData.items[i], Null)]))

\* the updater of ['games', date] in onSuccess: oldData.map is no function when
\* oldData is the response object of the API
updateGames(oldData, simulationResults, gameId) ==
    IF Falsy(oldData) THEN Return(oldData)
    ELSE IF oldData.k # "array" THEN Throw("TypeError")
    ELSE Return(ArrayData([i \in DOMAIN oldData.items |->
                              IF oldData.items[i].id = gameId
                              THEN Spread(oldData.items[i], simulationResults)
                              ELSE oldData.items[i]]))

\* the updater of ['game', gameId] in onSuccess
updateGame(oldData, simulationResults) ==
    IF ~Falsy(oldData) THEN Spread(oldData, simulationResults) ELSE oldData

\* the data of the queries after onSuccess(simulationResults, gameId): an
\* updater that throws ends onSuccess
onSuccess(cache, simulationResults, gameId) ==
    LET games == updateGames(cache[gamesKey], simulationResults, gameId)
    IN  IF games.k = "throw" THEN cache
        ELSE IF gameKey(gameId) \in DOMAIN cache
        THEN [cache EXCEPT ![gamesKey] = games.v,
                           ![gameKey(gameId)] = updateGame(@, simulationResults)]
        ELSE [cache EXCEPT ![gamesKey] = games.v]

\* import('./mockData').then(...)
Import_mockData ==
    /\ useMockData
    /\ mockGames = Null
    /\ mockGames' = ArrayData(todaysGames)
    /\ UNCHANGED <<fn, args, ret, earlier, queryCache, pending, requests>>

\* useQuery fetches a query that is not fetching: when it is mounted, at the
\* refetchInterval, on refetch(); ['odds', gameId] is enabled by the game
Fetch ==
    /\ \E key \in QueryKeys :
        /\ ~\E p \in pending : p.op = "query" /\ p.key = key
        /\ key.q = "odds" => ~Falsy(queryCache[gameKey(key.id)])
        /\ \E call \in {QueryFn(key)} :
            /\ pending' = pending \cup {[op |-> "query", key |-> key, call |-> call,
                                         failureCount |-> 0, after |-> -1]}
            /\ requests' = Sent(call)
    /\ UNCHANGED <<fn, args, ret, earlier, mockGames, queryCache>>

\* the promise of a query function is fulfilled: the data of the query are set
QuerySucceeds ==
    /\ \E p \in pending :
        /\ p.op = "query"
        /\ queryCache' = [queryCache EXCEPT ![p.key] = Resolved(p.call)]
        /\ pending' = pending \ {p}
    /\ UNCHANGED <<fn, args, ret, earlier, mockGames, requests>>

\* The statuses a request fails with; 0 is no response
FailureStatuses == {404, 500, 0}

\* the request of a query function fails: the query function is called again
\* when retry allows it, with the count of failures one higher
QueryFails ==
    /\ \E p \in pending, status \in FailureStatuses :
        /\ p.op = "query"
        /\ p.call.via = "api"
        /\ IF retry(p.failureCount, ServiceError(AxiosError(status)))
           THEN \E call \in {QueryFn(p.key)} :
                  /\ pending' = (pending \ {p})
                        \cup {[p EXCEPT !.call = call, !.failureCount = @ + 1,
                                        !.after = status]}
                  /\ requests' = Sent(call)
           ELSE /\ pending' = pending \ {p}
                /\ requests' = requests
    /\ UNCHANGED <<fn, args, ret, earlier, mockGames, queryCache>>

\* the games a simulation is run for
Simulated == {"lad-sf", "nyy-bos"}

\* runSimulation(gameId): simulationMutation.mutate(gameId)
runSimulation ==
    /\ \E gameId \in Simulated :
        /\ ~\E p \in pending : p.op = "mutation" /\ p.gameId = gameId
        /\ \E call \in {runGameSimulation(gameId)} :
            /\ pending' = pending \cup {[op |-> "mutation", gameId |-> gameId, call |-> call]}
            /\ requests' = Sent(call)
    /\ UNCHANGED <<fn, args, ret, earlier, mockGames, queryCache>>

\* runGameSimulation is fulfilled: onSuccess of the mutation
SimulationSucceeds ==
    /\ \E p \in pending :
        /\ p.op = "mutation"
        /\ queryCache' = onSuccess(queryCache, Resolved(p.call), p.gameId)
        /\ pending' = pending \ {p}
    /\ UNCHANGED <<fn, args, ret, earlier, mockGames, requests>>

\* the request of runGameSimulation fails: the mutation ends with an error
SimulationFails ==
    /\ \E p \in pending :
        /\ p.op = "mutation"
        /\ p.call.via = "api"
        /\ pending' = pending \ {p}
    /\ UNCHANGED <<fn, args, ret, earlier, mockGames, queryCache, requests>>

NextGames == \/ Import_mockData
             \/ Fetch
             \/ QuerySucceeds
             \/ runSimulation
             \/ SimulationSucceeds
             \/ SimulationFails

SpecGames == Init /\ [][NextGames]_vars

NextRetry == \/ Import_mockData
             \/ Fetch
             \/ QuerySucceeds
             \/ QueryFails

SpecRetry == Init /\ [][NextRetry]_vars

Next == \/ NextRepeat
        \/ NextIndicator
        \/ NextStake
        \/ NextGames
        \/ NextRetry
        \/ NextConvert
        \/ NextClassify
        \/ NextEdge
        \/ NextBest
        \/ NextKelly
        \/ NextAmerican
        \/ NextProps

Spec == Init /\ [][Next]_vars

-----------------------------------------------------------------------------
(* The properties.  They are stated on the literals a call was made with,  *)
(* in integers: the value of a returned Number is compared with the exact  *)
(* rational the property names.                                            *)

Abs(n) == IF n < 0 THEN -n ELSE n

\* |a - b| of two naturals
BDist(a, b) == IF BCmp(a, b) >= 0 THEN BSub(a, b) ELSE BSub(b, a)

\* |x * den * 2^-x.e - num * 2^-x.e| for a finite x with x.e <= 0: the distance
\* of x from num / den, scaled by den * 2^-x.e
ScaledDist(x, num, den) ==
    IF (x.s = 1) = (num < 0) \/ num = 0
    THEN BDist(BMul(x.m, BFromInt(den)), BShl(BFromInt(Abs(num)), -x.e))
    ELSE BAdd(BMul(x.m, BFromInt(den)), BShl(BFromInt(Abs(num)), -x.e))

\* |x - num / den| <= 2^-tol, for integers num and den > 0
Near(x, num, den, tol) ==
    IF x.k = "zero" THEN BCmp(BShl(BFromInt(Abs(num)), tol), BFromInt(den)) <= 0
    ELSE /\ x.k = "fin"
         /\ x.e <= 0
         /\ BCmp(BShl(ScaledDist(x, num, den), tol), BShl(BFromInt(den), -x.e)) <= 0

\* x is a double nearest to num / den: a normalized significand, and a distance
\* from num / den of at most half a unit in its last place
Nearest(x, num, den) ==
    /\ x.k = "fin"
    /\ x.e <= 0
    /\ BBitLen(x.m) = MantBits
    /\ BCmp(BMulSmall(ScaledDist(x, num, den), 2), BFromInt(den)) <= 0

\* 0 < x < 1: a finite positive double below 2^0
InOpenUnit(x) == x.k = "fin" /\ x.s = 0 /\ BBitLen(x.m) + x.e <= 0

\* -1 < x < 1
InsideUnit(x) == x.k = "zero" \/ (x.k = "fin" /\ BBitLen(x.m) + x.e <= 0)

\* 0 <= x <= 1
InClosedUnit(x) == x.k = "zero" \/ InOpenUnit(x) \/ x = N1

\* x is a NaN or x >= 0
NotNegative(x) == x.k \in {"nan", "zero"} \/ x.s = 0

\* the argument literal is a valid price: a nonzero integer of magnitude >= 100
ValidPrice(l) == l.lit = "int" /\ (l.n >= 100 \/ l.n <= -100)

\* the implied probability of the price o as the fraction ProbNum / ProbDen
ProbNum(o) == IF o > 0 THEN 100 ELSE -o

ProbDen(o) == IF o > 0 THEN o + 100 ELSE 100 - o

\* the rating of oddsService for an edge of n hundredths
ExpectedRating(n) ==
    IF n > 5 THEN "strong_value"
    ELSE IF n > 2 THEN "value"
    ELSE IF n < -5 THEN "poor"
    ELSE IF n < -2 THEN "below"
    ELSE "fair"

\* C1: determineValueType returns, for every edge of (-1, 1) in hundredths, the
\* one rating of the priority rules: above 0.05 strong_value, above 0.02 value,
\* below -0.05 poor, below -0.02 below, else fair; so 0.02 and -0.02 are fair,
\* 0.05 is value and -0.05 is below
C1_Classification ==
    fn = "determineValueType" => ret = Return(ExpectedRating(args[1].n))

\* determineValueType(0.02) has returned fair
C1_BoundaryIsFair ==
    fn = "determineValueType" /\ args = <<DecLit(2)>> /\ ret = Return("fair")

EdgeNum(m, s) == ProbNum(s) * ProbDen(m) - ProbNum(m) * ProbDen(s)

EdgeDen(m, s) == ProbDen(m) * ProbDen(s)

\* x is the edge of the model price s over the market price m: their exact
\* difference up to rounding, of the same sign, and inside (-1, 1)
IsEdge(x, m, s) ==
    /\ Near(x, EdgeNum(m, s), EdgeDen(m, s), 50)
    /\ FSign(x) = (IF EdgeNum(m, s) > 0 THEN 1 ELSE IF EdgeNum(m, s) < 0 THEN -1 ELSE 0)
    /\ InsideUnit(x)

\* the rating of oddsService for the exact edge num / den
ExactRating(num, den) ==
    IF 100 * num > 5 * den THEN "strong_value"
    ELSE IF 100 * num > 2 * den THEN "value"
    ELSE IF 100 * num < -5 * den THEN "poor"
    ELSE IF 100 * num < -2 * den THEN "below"
    ELSE "fair"

\* every price of an odds object literal is valid
ValidPrices(obj) == IsObject(obj) /\ \A f \in DOMAIN obj : ValidPrice(obj[f])

\* some price of an odds object literal is zero, missing or no number
MalformedPrices(obj) == IsObject(obj) /\ \E f \in DOMAIN obj : ~ValidPrice(obj[f])

\* C3: _calculateEdge(marketOdds, simulatedOdds) returns the model probability
\* minus the market probability: for valid prices a value inside (-1, 1) that is
\* positive exactly when the model probability is the larger; analyzeValue
\* reports that edge for each outcome from the two prices of that outcome, and
\* analyzeBettingValue rates each outcome by it; the edge of a model price of
\* -210 over a market price of -150 is positive and rated value or strong_value
C3_Edge ==
    /\ fn = "_calculateEdge" =>
           /\ ret.k = "return"
           /\ IsEdge(ret.v, args[1].n, args[2].n)
    /\ (fn = "_calculateEdge" /\ args = <<IntLit(-150), IntLit(-210)>>) =>
           /\ FSign(ret.v) = 1
           /\ determineValueType(ret.v) \in {"value", "strong_value"}
    /\ (fn = "analyzeValue" /\ IsObject(args[1]) /\ ValidPrices(args[2])
            /\ ValidPrices(args[1].bettingInsights)) =>
           /\ ret.k = "return"
           /\ IsEdge(ret.v.home.edge, args[2].homeMoneyline.n,
                     args[1].bettingInsights.homeMoneyline.n)
           /\ IsEdge(ret.v.away.edge, args[2].awayMoneyline.n,
                     args[1].bettingInsights.awayMoneyline.n)
           /\ IsEdge(ret.v.over.edge, args[2].overOdds.n,
                     args[1].bettingInsights.overOdds.n)
           /\ IsEdge(ret.v.under.edge, args[2].underOdds.n,
                     args[1].bettingInsights.underOdds.n)
    /\ (fn = "analyzeBettingValue" /\ ValidPrices(args[1]) /\ ValidPrices(args[2])) =>
           /\ ret.k = "return"
           /\ ret.v.homeValue =
                  ExactRating(EdgeNum(args[1].homeMoneyline.n, args[2].homeMoneyline.n),
                              EdgeDen(args[1].homeMoneyline.n, args[2].homeMoneyline.n))
           /\ ret.v.awayValue =
                  ExactRating(EdgeNum(args[1].awayMoneyline.n, args[2].awayMoneyline.n),
                              EdgeDen(args[1].awayMoneyline.n, args[2].awayMoneyline.n))
           /\ ret.v.overValue =
                  ExactRating(EdgeNum(args[1].overOdds.n, args[2].overOdds.n),
                              EdgeDen(args[1].overOdds.n, args[2].overOdds.n))
           /\ ret.v.underValue =
                  ExactRating(EdgeNum(args[1].underOdds.n, args[2].underOdds.n),
                              EdgeDen(args[1].underOdds.n, args[2].underOdds.n))
           /\ (args[1].homeMoneyline.n = -150 /\ args[2].homeMoneyline.n = -210) =>
                  ret.v.homeValue \in {"value", "strong_value"}

\* _calculateEdge(-150, -210) has returned a positive edge
C3_ModelMoreConfident ==
    /\ fn = "_calculateEdge"
    /\ args = <<IntLit(-150), IntLit(-210)>>
    /\ ret.k = "return"
    /\ FSign(ret.v) = 1

\* C4, as the specification states it: a call of analyzeBettingValue or of
\* analyzeValue with a price that is zero, missing or no number fails with an
\* InvalidOddsError
C4_MalformedOddsFail ==
    /\ (fn = "analyzeBettingValue" /\ IsObject(args[1]) /\ IsObject(args[2])
            /\ (MalformedPrices(args[1]) \/ MalformedPrices(args[2]))) =>
           (ret.k = "throw" /\ ret.e = "InvalidOddsError")
    /\ (fn = "analyzeValue" /\ IsObject(args[1]) /\ IsObject(args[2])
            /\ IsObject(args[1].bettingInsights)
            /\ (MalformedPrices(args[2]) \/ MalformedPrices(args[1].bettingInsights))) =>
           (ret.k = "throw" /\ ret.e = "InvalidOddsError")

\* C5, as the specification states it: a conversion of the price 0 to a
\* probability fails with an InvalidOddsError
C5_ZeroOddsFail ==
    (fn \in {"americanToImpliedProbability", "oddsToProb", "_oddsToProb"}
        /\ args = <<IntLit(0)>>)
    => (ret.k = "throw" /\ ret.e = "InvalidOddsError")

\* the largest edge, in hundredths, of an edges object literal
MaxEdge(edges) ==
    CHOOSE n \in {edges[f].n : f \in DOMAIN edges} : \A f \in DOMAIN edges : edges[f].n <= n

\* the first outcome, in the order of the properties, with an edge of n hundredths
FirstWith(edges, n) ==
    IF edges.home.n = n THEN "home"
    ELSE IF edges.away.n = n THEN "away"
    ELSE IF edges.over.n = n THEN "over"
    ELSE "under"

IsNull(v) == "k" \in DOMAIN v /\ v.k = "null"

\* C6: findBestValue returns null exactly when the largest edge is <= 0.02, and
\* otherwise an outcome with the largest edge, that edge and its rating; for the
\* edges 0.07, -0.01, 0.03, -0.03 of home, away, over, under it returns home,
\* 0.07 and strong_value
C6_BestValue ==
    /\ fn = "findBestValue" =>
           /\ ret.k = "return"
           /\ IsNull(ret.v) <=> MaxEdge(args[1]) <= 2
           /\ MaxEdge(args[1]) > 2 =>
                  /\ ret.v.type \in DOMAIN args[1]
                  /\ args[1][ret.v.type].n = MaxEdge(args[1])
                  /\ ret.v.edge = LitValue(DecLit(MaxEdge(args[1])))
                  /\ ret.v.valueType = ExpectedRating(MaxEdge(args[1]))
    /\ (fn = "findBestValue"
            /\ args = << [home |-> DecLit(7), away |-> DecLit(-1),
                          over |-> DecLit(3), under |-> DecLit(-3)] >>) =>
           /\ ret.v.type = "home"
           /\ ret.v.edge = LitValue(DecLit(7))
           /\ ret.v.valueType = "strong_value"

\* findBestValue has returned home for the edges 0.07, -0.01, 0.03, -0.03
C6_HomeIsBest ==
    /\ fn = "findBestValue"
    /\ args = << [home |-> DecLit(7), away |-> DecLit(-1),
                  over |-> DecLit(3), under |-> DecLit(-3)] >>
    /\ ret.k = "return"
    /\ ~IsNull(ret.v)
    /\ ret.v.type = "home"

\* C7: when two or more outcomes share the largest edge and it is above 0.02,
\* findBestValue returns the first of them in the order home, away, over, under
C7_TieFirst ==
    (fn = "findBestValue"
        /\ MaxEdge(args[1]) > 2
        /\ Cardinality({f \in DOMAIN args[1] : args[1][f].n = MaxEdge(args[1])}) >= 2)
    => /\ ret.k = "return"
       /\ ~IsNull(ret.v)
       /\ ret.v.type = FirstWith(args[1], MaxEdge(args[1]))

\* findBestValue has returned away where away and over share the largest edge
C7_AwayBeforeOver ==
    /\ fn = "findBestValue"
    /\ args = << [home |-> DecLit(5), away |-> DecLit(7),
                  over |-> DecLit(7), under |-> DecLit(3)] >>
    /\ ret.k = "return"
    /\ ~IsNull(ret.v)
    /\ ret.v.type = "away"

\* the Kelly fraction of a probability of n hundredths at the price o, before
\* the cap at 0, as KellyNum / KellyDen: p - q / b with b = o / 100 for o > 0
\* and b = 100 / |o| for o < 0
KellyNum(n, o) == IF o > 0 THEN n * o - 100 * (100 - n) ELSE 100 * n + (100 - n) * o

KellyDen(o) == IF o > 0 THEN 100 * o ELSE 10000

\* C8: calculateKellyStake(probability, americanOdds) returns
\* max(0, (b * probability - q) / b) with b = americanToDecimalOdds - 1 and
\* q = 1 - probability, up to rounding; no input makes the result negative; and
\* calculateKellyStake(0.5, 100) is 0
C8_KellyFormula ==
    /\ fn = "calculateKellyStake" =>
           /\ ret.k = "return"
           /\ NotNegative(ret.v)
    /\ (fn = "calculateKellyStake" /\ args[1].lit = "dec" /\ ValidPrice(args[2])) =>
           Near(ret.v,
                IF KellyNum(args[1].n, args[2].n) > 0
                THEN KellyNum(args[1].n, args[2].n) ELSE 0,
                KellyDen(args[2].n), 40)
    /\ (fn = "calculateKellyStake" /\ args = <<DecLit(50), IntLit(100)>>) =>
           ret = Return(N0)

\* calculateKellyStake(0.5, 100) has returned 0
C8_FairCoinEvenMoney ==
    /\ fn = "calculateKellyStake"
    /\ args = <<DecLit(50), IntLit(100)>>
    /\ ret = Return(N0)

\* C9: for every probability in (0, 1) and every valid price, calculateKellyStake
\* returns a fraction in [0, 1]
C9_KellyFraction ==
    (fn = "calculateKellyStake"
        /\ ValidPrice(args[2])
        /\ (args[1].lit = "implied" \/ (args[1].lit = "dec" /\ args[1].n \in 1..99)))
    => /\ ret.k = "return"
       /\ InClosedUnit(ret.v)

\* calculateKellyStake(0.6, 100) has returned a fifth of the bankroll
C9_PositiveStake ==
    /\ fn = "calculateKellyStake"
    /\ args = <<DecLit(60), IntLit(100)>>
    /\ ret.k = "return"
    /\ ret.v.k = "fin"
    /\ Near(ret.v, 1, 5, 40)
    /\ InClosedUnit(ret.v)

\* a rounding residue: +0 or a positive double below 2^-40
Residue(x) == x = N0 \/ (x.k = "fin" /\ x.s = 0 /\ BBitLen(x.m) + x.e <= -40)

C11_DegenerateKellyFails ==
    (fn = "calculateKellyStake"
        /\ \/ (args[1].lit = "dec" /\ (args[1].n <= 0 \/ args[1].n >= 100))
           \/ args[2] = IntLit(0))
    => (ret.k = "throw" /\ ret.e \in {"InvalidProbabilityError", "InvalidOddsError"})

\* the argument is a probability in hundredths
HundredthsArg(l) == l.lit = "dec"

\* C12: impliedProbabilityToAmerican fails, with the Error the code has for an
\* invalid probability, for every probability <= 0 and every probability >= 1,
\* and returns a value for every probability strictly between 0 and 1
C12_ProbabilityRange ==
    (fn = "impliedProbabilityToAmerican" /\ HundredthsArg(args[1]))
    => IF args[1].n <= 0 \/ args[1].n >= 100
       THEN ret.k = "throw" /\ ret.e = "Error"
       ELSE ret.k = "return" /\ ret.v.k = "fin"

\* impliedProbabilityToAmerican(1) has thrown
C12_CertaintyRejected ==
    /\ fn = "impliedProbabilityToAmerican"
    /\ args = <<DecLit(100)>>
    /\ ret.k = "throw"

\* x is an integer of fewer than 2 * LimbBits bits
IsInteger(x) ==
    \/ x.k = "zero"
    \/ /\ x.k = "fin"
       /\ x.e <= 0
       /\ ~BLowNonzero(x.m, -x.e)
       /\ BBitLen(x.m) + x.e < 2 * LimbBits

\* the integer x
IntegerOf(x) ==
    IF x.k = "zero" THEN 0
    ELSE (IF x.s = 1 THEN -1 ELSE 1) * BToInt(BShr(x.m, -x.e))

\* the odds of a probability of n hundredths, before the rounding to a multiple
\* of 5, as OddsNum / OddsDen
OddsNum(n) == IF n > 50 THEN -100 * n ELSE 100 * (100 - n)

OddsDen(n) == IF n > 50 THEN 100 - n ELSE n

ImpliedArg(l) ==
    /\ l.lit = "result"
    /\ l.fn = "americanToImpliedProbability"
    /\ ValidPrice(l.args[1])

RoundedArg(l) ==
    /\ l.lit = "result"
    /\ l.fn = "americanToImpliedProbability"
    /\ l.args[1].lit = "result"
    /\ l.args[1].fn = "impliedProbabilityToAmerican"
    /\ l.args[1].v.k = "fin"

C16_DecimalOdds ==
    (fn = "americanToDecimalOdds" /\ ValidPrice(args[1]))
    => /\ ret.k = "return"
       /\ Near(ret.v,
               IF args[1].n > 0 THEN args[1].n + 100 ELSE 100 - args[1].n,
               IF args[1].n > 0 THEN 100 ELSE -args[1].n,
               50)
       /\ FSign(JsSub(ret.v, N1)) = 1

\* americanToDecimalOdds(150) has returned 2.5
C16_UnderdogPayout ==
    /\ fn = "americanToDecimalOdds"
    /\ args = <<IntLit(150)>>
    /\ ret = Return(LitValue(DecLit(250)))

\* the rating of oddsService that a rating of simulationService corresponds to
RatingName ==
    [strong |-> "strong_value", value |-> "value", neutral |-> "fair",
     negative |-> "below", poor |-> "poor"]

\* C17: for the same market and simulated odds of the four outcomes,
\* analyzeValue of simulationService and analyzeBettingValue of oddsService rate
\* each outcome correspondingly - strong as strong_value, value as value,
\* neutral as fair, negative as below, poor as poor - and so do the two rating
\* functions on every edge _calculateEdge returns
C17_SameClassification ==
    /\ (fn = "analyzeValue" /\ IsObject(args[1]) /\ IsObject(args[2])
            /\ IsObject(args[1].bettingInsights)) =>
           /\ ret.k = "return"
           /\ \A r \in analyzeBettingValue(Value(args[2]),
                                           Value(args[1].bettingInsights)) :
                  /\ RatingName[ret.v.home.rating] = r.homeValue
                  /\ RatingName[ret.v.away.rating] = r.awayValue
                  /\ RatingName[ret.v.over.rating] = r.overValue
                  /\ RatingName[ret.v.under.rating] = r.underValue
    /\ fn = "_calculateEdge" =>
           RatingName[_getValueRating(ret.v)] = determineValueType(ret.v)

\* analyzeValue has rated home negative and away strong
C17_NegativeAndStrong ==
    /\ fn = "analyzeValue"
    /\ IsObject(args[1])
    /\ IsObject(args[2])
    /\ ret.k = "return"
    /\ ret.v.home.rating = "negative"
    /\ ret.v.away.rating = "strong"

\* The array of prop bets a call has ranked, before its sort: the array that
\* sortProps was given, or the one _generateMockPropBets has built
CandidatesOf(f, a) ==
    IF f = "sortProps" THEN PropsValue(a[1])
    ELSE addProps(players(a[1], a[2]), 1, a[3].random, 1, <<>>)

\* The place of candidate i by confidence descending, where of two candidates
\* of one confidence the earlier comes first
RankOf(candidates, i) ==
    1 + Cardinality({j \in 1..Len(candidates) :
                        \/ FGt(candidates[j].confidence, candidates[i].confidence)
                        \/ (j < i /\ FCmp(candidates[j].confidence,
                                          candidates[i].confidence) = 0)})

\* ranked is candidates in the order of confidence descending, ties in their
\* original order
RankedDescending(candidates, ranked) ==
    /\ Len(ranked) = Len(candidates)
    /\ \A i \in 1..Len(candidates) : ranked[RankOf(candidates, i)] = candidates[i]

\* C18: the list that _generateMockPropBets builds and sorts is its candidates
\* rearranged by confidence descending, candidates of equal confidence staying
\* in their original order; confidences 0.55, 0.82, 0.70 come out as 0.82,
\* 0.70, 0.55.
C18_RankedByConfidence ==
    /\ fn \in {"_generateMockPropBets", "sortProps"} =>
           \A candidates \in {CandidatesOf(fn, args)} :
               (\A i \in 1..Len(candidates) : candidates[i].confidence.k # "nan") =>
                   /\ ret.k = "return"
                   /\ RankedDescending(candidates, ret.v)
    /\ (fn = "sortProps"
            /\ [i \in 1..Len(args[1]) |-> args[1][i].confidence]
                   = <<DecLit(55), DecLit(82), DecLit(70)>>) =>
           [i \in 1..Len(ret.v) |-> ret.v[i].confidence]
               = <<Hundredths(82), Hundredths(70), Hundredths(55)>>

\* _generateMockPropBets has moved candidates, and two of one confidence are
\* among them
C18_SortedWithTie ==
    /\ fn = "_generateMockPropBets"
    /\ ret.k = "return"
    /\ ret.v # CandidatesOf(fn, args)
    /\ \E i, j \in 1..Len(ret.v) :
           i # j /\ FCmp(ret.v[i].confidence, ret.v[j].confidence) = 0

\* C19: grouping the prop bets by bet type for display leaves every two
\* candidates in the relative order they have in the input list, within a
\* group and across groups, and leaves the input list as it was.
C19_DisplayKeepsOrder ==
    (fn = "PropBetsList" /\ args[1].k = "array" /\ Len(args[1].items) > 0) =>
        /\ ret.k = "return"
        /\ displayedRows(ret.v.sections) = PropsValue(args[1].items)
        /\ ret.v.propBets = ArrayProp(PropsValue(args[1].items))

\* some prop bet of the array written down has a number outside (0, 1), in
\* hundredths, as its confidence
SomeOutsideUnit(l) ==
    \E i \in 1..Len(l) : /\ l[i].confidence.lit = "dec"
                          /\ (l[i].confidence.n <= 0 \/ l[i].confidence.n >= 100)

\* C20: a prop candidate with a confidence outside the open interval (0, 1)
\* is rejected with an InvalidConfidenceError: the API's list with one is not
\* returned by fetchPlayerProps, a list with one is not sorted, and
\* PropBetsList does not render one.
C20_InvalidConfidenceRejected ==
    (\/ fn = "fetchPlayerProps" /\ "response" \in DOMAIN args[2]
                                /\ SomeOutsideUnit(args[2].response)
     \/ fn = "sortProps" /\ SomeOutsideUnit(args[1])
     \/ fn = "PropBetsList" /\ args[1].k = "array" /\ SomeOutsideUnit(args[1].items))
    => (ret.k = "throw" /\ ret.e = "InvalidConfidenceError")

LabelOf(valueType) ==
    CASE valueType = "strong_value" -> "Strong Value"
      [] valueType = "value" -> "Value"
      [] valueType = "fair" -> "Fair Value"
      [] valueType = "below" -> "Below Value"
      [] valueType = "poor" -> "Poor Value"

\* the edge analyzeBettingValue computes for a market and a simulated price
EdgeOfPair(marketOdds, simulatedOdds) ==
    JsSub(oddsToProb(simulatedOdds), oddsToProb(marketOdds))

\* C22: for valid market and simulated odds, the text getValueIndicator returns
\* is the label of the rating determineValueType gives the unrounded edge
C22_LabelMatchesRating ==
    fn = "getValueIndicator"
        => ret.v.text = LabelOf(determineValueType(EdgeOfPair(Value(args[1]), Value(args[2]))))

\* the property of the odds objects and of the result that belong to an outcome
OddsKey == [home |-> "homeMoneyline", away |-> "awayMoneyline",
            over |-> "overOdds", under |-> "underOdds"]

ValueKey == [home |-> "homeValue", away |-> "awayValue",
             over |-> "overValue", under |-> "underValue"]

\* the edge of an outcome in the call analyzeBettingValue(args[1], args[2])
EdgeOfOutcome(t) == EdgeOfPair(Value(args[1][OddsKey[t]]), Value(args[2][OddsKey[t]]))

\* a result with its bestValue: some outcome is rated value or strong_value
\* exactly when bestValue is not null, and then bestValue has the rating of its
\* outcome, which is value or strong_value, and no outcome has a larger edge
BestValueConsistent(r) ==
    /\ r.bestValue # Null
        <=> \E t \in DOMAIN ValueKey : r[ValueKey[t]] \in {"value", "strong_value"}
    /\ r.bestValue # Null =>
        /\ r.bestValue.valueType \in {"value", "strong_value"}
        /\ r.bestValue.valueType = r[ValueKey[r.bestValue.type]]
        /\ \A t \in DOMAIN OddsKey : ~FGt(EdgeOfOutcome(t), r.bestValue.edge)

\* C24: every result of analyzeBettingValue for two odds objects has a bestValue
\* that is consistent with the four ratings and edges
C24_BestValueConsistent ==
    (fn = "analyzeBettingValue" /\ ret.v # Null) => BestValueConsistent(ret.v)

\* a call calculateExpectedValue(o, p) with a valid price and a probability of (0, 1)
StakeCase ==
    /\ fn = "calculateExpectedValue"
    /\ ValidPrice(args[1])
    /\ (args[2].lit = "implied" \/ (args[2].lit = "dec" /\ args[2].n \in 1..99))

\* the stake calculateKellyStake returns for the probability and the price of
\* the call calculateExpectedValue(o, p)
StakeOfCase == calculateKellyStake(Value(args[2]), Value(args[1]))

\* the implied probability of the price of the call
ImpliedOfCase == americanToImpliedProbability(Value(args[1]))

BModFive(a) == BToInt(BSub(a, BMulSmall(BDivSmall(a, 5), 5)))

\* x is a finite Number whose value is an integer multiple of 5
MultipleOfFive(x) ==
    /\ x.k = "fin"
    /\ IF x.e >= 0 THEN BModFive(BShl(x.m, x.e)) = 0
       ELSE ~BLowNonzero(x.m, -x.e) /\ BModFive(BShr(x.m, -x.e)) = 0

\* x is a finite Number of magnitude 100 or more
AtLeastHundred(x) == x.k = "fin" /\ FGe(FAbs(x), N100)

\* the argument is a probability of (0, 1): a literal, or what
\* americanToImpliedProbability returned for a valid price
ProbabilityArg(l) ==
    \/ l.lit = "dec" /\ l.n \in 1..99
    \/ l.lit = "tiny"
    \/ ImpliedArg(l)

C23_RetryPolicy ==
    \A p \in pending :
        p.op = "query" => p.after # 404 /\ p.failureCount <= 2

\* the mutation p ends in this step
Ends(p) == p \in pending /\ p.op = "mutation" /\ p \notin pending'

\* the simulationResults the game of the mutation p may have after p has ended:
\* what runGameSimulation resolved with, or, when its request failed, what
\* the game had before
ResultsAfter(p, before) ==
    IF p.call.via = "mock" THEN {p.call.v} ELSE {AxiosResponse(p.call.url), before}

FromSimulation(r) ==
    \/ r.k = "results" /\ r.from = "simulation"
    \/ r.k = "response"

\* simulation results of the game gameId: of its entry in mockData.js, of its
\* simulation, or of the request for its simulation
OwnResults(r, gameId) ==
    \/ r.k = "results" /\ r.gameId = gameId
    \/ r.k = "response" /\ r.url = <<"/simulations/baseball/", gameId>>

GamesFetchEnds ==
    \E p \in pending : p.op = "query" /\ p.key = gamesKey /\ p \notin pending'

\* C29: when a fetch of the list of games completes, every game of the cached
\* list that held the results of a simulation still holds them
C29_ResultsSurviveFetch ==
    [][LET old == queryCache[gamesKey]
           new == queryCache'[gamesKey]
       IN  (GamesFetchEnds /\ ~Falsy(old) /\ old.k = "array") =>
             \A i \in DOMAIN old.items :
                 (~Falsy(old.items[i].simulationResults)
                     /\ FromSimulation(old.items[i].simulationResults))
                 => /\ ~Falsy(new) /\ new.k = "array"
                    /\ \E j \in DOMAIN new.items :
                          /\ new.items[j].id = old.items[i].id
                          /\ new.items[j].simulationResults
                                = old.items[i].simulationResults
      ]_vars

\* the paths of the requests that are about the games of mockData.js
GamePaths == {"/games/baseball/today", "/games/baseball/", "/simulations/baseball/"}

\* C30: with mock data enabled, no request of fetchTodaysGames,
\* fetchGameDetails or runGameSimulation for a game of mockData.js is sent to
\* the API, whether or not the import of the mock module has resolved
C30_NoRequestForMockGames ==
    \A r \in requests : r.url[1] \notin GamePaths

====
